---- MODULE Spec2Model ----
(***************************************************************************)
(* Incremental contact discovery service: the registered-user table S1,    *)
(* the two expiring delta sets S2_added / S2_removed, the two leaky        *)
(* buckets, and the request handlers of app.py that coordinate them.       *)
(*                                                                         *)
(* Python dicts are functions whose DOMAIN is the set of keys.  The delta   *)
(* sets keep whole seconds, the values of _time() = int(time()); the       *)
(* buckets of the server are given time() itself, a float with a fraction  *)
(* of a second.  A bucket stores for each user the time tau at which the   *)
(* bucket will be empty, tau = time + amount / leak_rate, a Python float:  *)
(* the model computes it as bucket.py does, in IEEE 754 double precision,  *)
(* every operation rounded.                                                *)
(***************************************************************************)
EXTENDS Integers, Sequences, FiniteSets, TLC

(***************************************************************************)
(* Configuration of app.py, scaled down (20000 contacts, 86400 s, 864000 s *)
(* in the source) so that lists of max_contacts + 1 identifiers and whole  *)
(* drain periods can be enumerated.                                        *)
(***************************************************************************)
max_contacts == 2
s2_period == 1
s2_delta == 2

\* Bounds of the exploration.  The calls on the stand-alone bucket come at
\* times up to MaxBucketTime past its drain period, and where its calls
\* are counted it takes MaxCalls of them after it was made; the test endpoints
\* create up to MaxCreate users per request; MaxThreads worker threads take
\* MaxRequests requests in all while the clock runs up to MaxThreadTime.
MaxTime == 2
MaxStep == 1
MaxBucketTime == 1
MaxCalls == 3
MaxCreate == 2
MaxThreadTime == 1
MaxThreads == 2
MaxRequests == 3

\* Identifiers and tokens are byte strings; "" is the empty byte string,
\* which is also what a protobuf message without the field decodes to.
Identifiers == {"", "a"}
Tokens == {"", "x"}
BucketUsers == {"a", "b"}

\* Messages_pb2.Result
SUCCESS == 0
AUTHENTICATION_INVALID == 1
RATE_LIMIT_EXCEEDED == 2
REQUEST_DATA_MISSING == 3
REQUEST_DATA_INVALID == 4

VARIABLES
    s1,          \* UserSet._users of s1: identifier -> token
    s2_added,    \* ExpiringUserSet._users of s2_added: identifier -> removal time
    s2_removed,  \* ExpiringUserSet._users of s2_removed: identifier -> removal time
    s1_buckets,  \* Bucket._users of s1_buckets: identifier -> tau, a float
    s2_buckets,  \* Bucket._users of s2_buckets: identifier -> tau, a float
    clock,       \* the wall clock in whole seconds, int(time())
    frac,        \* the wall clock's fraction of a second, in milliseconds:
                 \* time() = clock + frac / 1000
    request,     \* the request handled last: endpoint and body
    response,    \* the response sent last
    lastEvent,   \* history: the latest registration event of each identifier
    roundTrip,   \* history: a register and the unregister that follows it
    threads,     \* the request each worker thread handles and where it stands
    base,        \* history: the containers the overlapping requests found
    layout,      \* the entries of the dicts of s2_added and s2_removed in the
                 \* order an iterator meets them, where threads serve the
                 \* requests
    myBucket,    \* the stand-alone bucket: the fields its constructor set
    bucket,      \* Bucket._users of the stand-alone bucket
    btime,       \* the time argument of the latest call on the stand-alone
                 \* bucket, a float
    bcall,       \* the latest call on the stand-alone bucket and what it returned
    bcalls,      \* history: the calls the stand-alone bucket has taken since
                 \* it was made
    ordered,     \* history: since the stand-alone bucket was made or cleared,
                 \* no call on it came with a time earlier than the call before
    ideal,       \* history: the drain times the stand-alone bucket would hold
                 \* in real arithmetic, identifier -> tau * max_count
    admitted,    \* history: the admitted calls of one user, time and amount
    unswept,     \* history: the stand-alone bucket had cleanUsers never run
    mySet,       \* UserSet._users of the stand-alone user set
    myExpSet,    \* ExpiringUserSet._users of the stand-alone expiring set
    setCall,     \* the latest call on a stand-alone set and what it returned
    written,     \* history: per user, the latest addUser on mySet, and
                 \* whether the user was removed since
    addedAt      \* history: per user, the time of the latest addUser on myExpSet

appVars == <<s1, s2_added, s2_removed, s1_buckets, s2_buckets, clock, frac,
             request, response, lastEvent, roundTrip, threads, base, layout>>
concVars == <<threads, base, layout>>
bucketVars == <<myBucket, bucket, btime, bcall, bcalls, ordered, ideal, admitted,
               unswept>>
setVars == <<mySet, myExpSet, setCall, written, addedAt>>
vars == <<s1, s2_added, s2_removed, s1_buckets, s2_buckets, clock, frac, request,
          response, lastEvent, roundTrip, threads, base, layout, myBucket, bucket,
          btime,
          bcall, bcalls, ordered, ideal, admitted, unswept, mySet, myExpSet,
          setCall, written, addedAt>>

----------------------------------------------------------------------------
(* dict helpers *)

\* The sequences over S of length at most n.
RECURSIVE SeqsUpTo(_, _)
SeqsUpTo(S, n) ==
    IF n = 0 THEN {<<>>}
    ELSE LET shorter == SeqsUpTo(S, n - 1)
         IN  shorter \cup {Append(q, x) : q \in shorter, x \in S}

EmptyDict == [k \in {} |-> 0]

DictSet(d, k, v) == [x \in (DOMAIN d) \cup {k} |-> IF x = k THEN v ELSE d[x]]

DictDel(d, k) == [x \in (DOMAIN d) \ {k} |-> d[x]]

----------------------------------------------------------------------------
(* userSet.py: UserSet *)

UserSet_userCount(users) == Cardinality(DOMAIN users)

UserSet_userExists(users, user) == user \in DOMAIN users

\* Variant: the token of a user that is present is kept.
UserSet_addUser_KeepFirst(users, user, auth_token) ==
    IF user \in DOMAIN users THEN users ELSE DictSet(users, user, auth_token)

UserSet_addUser(users, user, auth_token) == DictSet(users, user, auth_token)

UserSet_removeUser(users, user) ==
    IF user \notin DOMAIN users THEN users ELSE DictDel(users, user)

\* Variant: any token is accepted for a registered user.
UserSet_isValidUser_AnyToken(users, user, auth_token) ==
    user \in DOMAIN users

UserSet_isValidUser(users, user, auth_token) ==
    IF user \notin DOMAIN users THEN FALSE ELSE users[user] = auth_token

\* Variant: only identifiers that are also in the set of added users.
UserSet_containedUsers_Recent(users, ids) ==
    SelectSeq(ids, LAMBDA x : x \in DOMAIN users /\ x \in DOMAIN s2_added)

UserSet_containedUsers(users, ids) ==
    SelectSeq(ids, LAMBDA x : x \in DOMAIN users)

UserSet_clear(users) == EmptyDict

----------------------------------------------------------------------------
(* userSet.py: ExpiringUserSet *)

ExpiringUserSet_userCount(users) == Cardinality(DOMAIN users)

ExpiringUserSet_userExists(users, user) == user \in DOMAIN users

\* Variant: the removal time of a user that is present is kept.
ExpiringUserSet_addUser_KeepFirst(users, expiration_time, user, time) ==
    IF user \in DOMAIN users THEN users
    ELSE DictSet(users, user, time + expiration_time)

ExpiringUserSet_addUser(users, expiration_time, user, time) ==
    LET removal_time == time + expiration_time
    IN  DictSet(users, user, removal_time)

\* Variant: removing a user that is present empties the set.
ExpiringUserSet_removeUser_All(users, user) ==
    IF user \notin DOMAIN users THEN users ELSE EmptyDict

ExpiringUserSet_removeUser(users, user) ==
    IF user \notin DOMAIN users THEN users ELSE DictDel(users, user)

\* Variant: an entry older than the newest entry of the set counts as
\* expired and is not reported.
ExpiringUserSet_containedUsers_Fresh(users, ids) ==
    SelectSeq(ids, LAMBDA x : /\ x \in DOMAIN users
                              /\ \A y \in DOMAIN users : users[y] <= users[x])

\* Variant: a user that is present is returned once, however often it is
\* in the list.
ExpiringUserSet_containedUsers_Once(users, ids) ==
    LET found == SelectSeq(ids, LAMBDA x : x \in DOMAIN users)
        keep == {i \in 1..Len(found) : \A j \in 1..(i - 1) : found[j] # found[i]}
        nth(n) == CHOOSE i \in keep : Cardinality({j \in keep : j < i}) = n - 1
    IN  [n \in 1..Cardinality(keep) |-> found[nth(n)]]

ExpiringUserSet_containedUsers(users, ids) ==
    SelectSeq(ids, LAMBDA x : x \in DOMAIN users)

\* Variant: an entry whose removal time is the current time is kept.
ExpiringUserSet_update_KeepDue(users, time) ==
    LET filtered == [k \in {x \in DOMAIN users : users[x] >= time} |-> users[k]]
        removed == Cardinality(DOMAIN users) - Cardinality(DOMAIN filtered)
    IN  [users |-> filtered, removed |-> removed]

\* update returns the number of removed items and replaces the dict.
ExpiringUserSet_update(users, time) ==
    LET filtered == [k \in {x \in DOMAIN users : users[x] > time} |-> users[k]]
        removed == Cardinality(DOMAIN users) - Cardinality(DOMAIN filtered)
    IN  [users |-> filtered, removed |-> removed]

ExpiringUserSet_clear(users) == EmptyDict

----------------------------------------------------------------------------------------------------------------------------------------
(* Python floats (bucket.py computes every drain time with them): IEEE 754 *)
(* binary64, each operation rounded to the nearest value, ties to even.    *)
(* Only finite values >= 0 occur.  A float is 0 or m * 2^e with            *)
(* 2^52 <= m < 2^53, kept as [hi, lo, e] with m = hi * 2^27 + lo, because  *)
(* the integers of the model checker have 32 bits; 0 is [0, 0, 0].  So two *)
(* floats are equal exactly when their records are equal.                  *)

FloatZero == [hi |-> 0, lo |-> 0, e |-> 0]

\* int.bit_length() for 0 <= n < 2^31
BitLength(n) ==
    LET B1(m, k) == k + (IF m >= 2 THEN 2 ELSE m)
        B2(m, k) == IF m >= 2^2 THEN B1(m \div 2^2, k + 2) ELSE B1(m, k)
        B4(m, k) == IF m >= 2^4 THEN B2(m \div 2^4, k + 4) ELSE B2(m, k)
        B8(m, k) == IF m >= 2^8 THEN B4(m \div 2^8, k + 8) ELSE B4(m, k)
    IN  IF n >= 2^16 THEN B8(n \div 2^16, 16) ELSE B8(n, 0)

\* The float nearest to (H * 2^30 + L) * 2^e, for 0 <= L < 2^30 and
\* 0 <= H < 2^27; an odd L stands for any value strictly between L - 1 and
\* L + 1 when more than 53 bits are given (the sticky bit).
FloatRound(H, L, e) ==
    LET Rounded(n) ==
          IF n <= 26
          THEN [hi |-> L * 2^(26 - n), lo |-> 0, e |-> e - (53 - n)]
          ELSE IF n <= 30
          THEN [hi |-> L \div 2^(n - 26),
                lo |-> (L % 2^(n - 26)) * 2^(53 - n),
                e |-> e - (53 - n)]
          ELSE IF n <= 53
          THEN [hi |-> H * 2^(56 - n) + L \div 2^(n - 26),
                lo |-> (L % 2^(n - 26)) * 2^(53 - n),
                e |-> e - (53 - n)]
          ELSE LET Carried(ML, MH, up) ==
                     IF up /\ ML + 1 = 2^30
                     THEN IF MH + 1 = 2^23
                          THEN [hi |-> 2^25, lo |-> 0, e |-> e + (n - 53) + 1]
                          ELSE [hi |-> (MH + 1) * 8, lo |-> 0, e |-> e + (n - 53)]
                     ELSE IF up
                     THEN [hi |-> MH * 8 + (ML + 1) \div 2^27,
                           lo |-> (ML + 1) % 2^27, e |-> e + (n - 53)]
                     ELSE [hi |-> MH * 8 + ML \div 2^27, lo |-> ML % 2^27,
                           e |-> e + (n - 53)]
                   Up(ML, r, half) == r > half \/ (r = half /\ ML % 2 = 1)
                   Shifted(ML) ==
                     Carried(ML, H \div 2^(n - 53),
                             Up(ML, L % 2^(n - 53), 2^(n - 54)))
               IN  Shifted((H % 2^(n - 53)) * 2^(83 - n) + L \div 2^(n - 53))
    IN  IF H = 0 /\ L = 0 THEN FloatZero
        ELSE Rounded(IF H > 0 THEN 30 + BitLength(H) ELSE BitLength(L))

\* float(n) for an int 0 <= n < 2^31
Float(n) == FloatRound(n \div 2^30, n % 2^30, 0)

\* x < y
FloatLess(x, y) ==
    IF x.hi = 0 THEN y.hi # 0
    ELSE IF y.hi = 0 THEN FALSE
    ELSE \/ x.e < y.e
         \/ x.e = y.e /\ x.hi < y.hi
         \/ x.e = y.e /\ x.hi = y.hi /\ x.lo < y.lo

\* The mantissa of y with three more bits, moved d bits to the right; what
\* falls off on the right makes the lowest bit odd.
FloatAligned(y, d) ==
    LET Sticky(H, L, sticky) ==
          [H |-> H, L |-> IF sticky /\ L % 2 = 0 THEN L + 1 ELSE L]
    IN  IF d = 0 THEN [H |-> y.hi, L |-> y.lo * 8]
        ELSE IF d < 30
        THEN Sticky(y.hi \div 2^d,
                    (y.hi % 2^d) * 2^(30 - d) + (y.lo * 8) \div 2^d,
                    (y.lo * 8) % 2^d # 0)
        ELSE IF d < 56
        THEN Sticky(0, y.hi \div 2^(d - 30),
                    y.hi % 2^(d - 30) # 0 \/ y.lo # 0)
        ELSE Sticky(0, 0, TRUE)

\* x + y
FloatAdd(x, y) ==
    LET Sum(big, Y) ==
          FloatRound(big.hi + Y.H + (big.lo * 8 + Y.L) \div 2^30,
                     (big.lo * 8 + Y.L) % 2^30, big.e - 3)
    IN  IF x.hi = 0 THEN y
        ELSE IF y.hi = 0 THEN x
        ELSE IF FloatLess(x, y) THEN Sum(y, FloatAligned(x, y.e - x.e))
        ELSE Sum(x, FloatAligned(y, x.e - y.e))

\* x - y for x >= y
FloatSub(x, y) ==
    LET Difference(Y) ==
          IF x.lo * 8 < Y.L
          THEN FloatRound(x.hi - Y.H - 1, x.lo * 8 - Y.L + 2^30, x.e - 3)
          ELSE FloatRound(x.hi - Y.H, x.lo * 8 - Y.L, x.e - 3)
    IN  IF y.hi = 0 THEN x
        ELSE Difference(FloatAligned(y, x.e - y.e))

\* The mantissa of x in four digits of 14 bits, lowest first.
FloatDigits(x) ==
    <<x.lo % 2^14, (x.hi % 2) * 2^13 + x.lo \div 2^14, (x.hi \div 2) % 2^14,
      x.hi \div 2^15>>

\* x * y: the product of the digits, column by column with the carries.
FloatMul(x, y) ==
    LET Product(e, p0, p1, p2, p3, p4, p5, p6) ==
          LET L == ((p5 % 2^14) % 2^10) * 2^20 + (p4 % 2^14) * 2^6
                     + (p3 % 2^14) \div 2^8
              H == (p6 \div 2^14) * 2^18 + (p6 % 2^14) * 2^4
                     + (p5 % 2^14) \div 2^10
              sticky == \/ (p3 % 2^14) % 2^8 # 0
                        \/ p2 % 2^14 # 0
                        \/ p1 % 2^14 # 0
                        \/ p0 % 2^14 # 0
          IN  FloatRound(H, IF sticky /\ L % 2 = 0 THEN L + 1 ELSE L, e)
        P6(a, b, e, p0, p1, p2, p3, p4, p5) ==
          Product(e, p0, p1, p2, p3, p4, p5, a[4] * b[4] + p5 \div 2^14)
        P5(a, b, e, p0, p1, p2, p3, p4) ==
          P6(a, b, e, p0, p1, p2, p3, p4,
             a[3] * b[4] + a[4] * b[3] + p4 \div 2^14)
        P4(a, b, e, p0, p1, p2, p3) ==
          P5(a, b, e, p0, p1, p2, p3,
             a[2] * b[4] + a[3] * b[3] + a[4] * b[2] + p3 \div 2^14)
        P3(a, b, e, p0, p1, p2) ==
          P4(a, b, e, p0, p1, p2,
             a[1] * b[4] + a[2] * b[3] + a[3] * b[2] + a[4] * b[1]
               + p2 \div 2^14)
        P2(a, b, e, p0, p1) ==
          P3(a, b, e, p0, p1,
             a[1] * b[3] + a[2] * b[2] + a[3] * b[1] + p1 \div 2^14)
        P1(a, b, e, p0) ==
          P2(a, b, e, p0, a[1] * b[2] + a[2] * b[1] + p0 \div 2^14)
        P0(a, b, e) == P1(a, b, e, a[1] * b[1])
    IN  IF x.hi = 0 \/ y.hi = 0 THEN FloatZero
        ELSE P0(FloatDigits(x), FloatDigits(y), x.e + y.e + 50)

\* One digit of a long division in base 2^14: r and d are four digits each,
\* lowest first, with r < d and d >= 2^52.  Returns the digit
\* q = (r * 2^14) \div d and the remainder.  The digit is first estimated
\* from the leading bits, which falls short by one at most; t is
\* r * 2^14 - est * d, taken digit by digit (each u is 2^14 + a difference).
FloatDivStep(r, d) ==
    LET Digit(est, t) ==
          LET Less(v1, v2, v3) ==
                [q |-> est + 1,
                 r |-> <<v1 % 2^14, v2 % 2^14, v3 % 2^14,
                         t[4] - d[4] - (IF v3 < 2^14 THEN 1 ELSE 0)>>]
              V3(v1, v2) ==
                Less(v1, v2, 2^14 + t[3] - d[3] - (IF v2 < 2^14 THEN 1 ELSE 0))
              V2(v1) == V3(v1, 2^14 + t[2] - d[2] - (IF v1 < 2^14 THEN 1 ELSE 0))
          IN  IF \/ t[4] > d[4]
                 \/ t[4] = d[4] /\ t[3] > d[3]
                 \/ t[4] = d[4] /\ t[3] = d[3] /\ t[2] > d[2]
                 \/ t[4] = d[4] /\ t[3] = d[3] /\ t[2] = d[2] /\ t[1] >= d[1]
              THEN V2(2^14 + t[1] - d[1])
              ELSE [q |-> est, r |-> t]
        U4(est, c4, u1, u2, u3) ==
          Digit(est, <<u1 % 2^14, u2 % 2^14, u3 % 2^14,
                       (r[4] - c4 \div 2^14) * 2^14 + r[3] - (c4 % 2^14)
                         - (IF u3 < 2^14 THEN 1 ELSE 0)>>)
        U3(est, c3, u1, u2) ==
          U4(est, est * d[4] + c3 \div 2^14, u1, u2,
             2^14 + r[2] - (c3 % 2^14) - (IF u2 < 2^14 THEN 1 ELSE 0))
        U2(est, c2, u1) ==
          U3(est, est * d[3] + c2 \div 2^14, u1,
             2^14 + r[1] - (c2 % 2^14) - (IF u1 < 2^14 THEN 1 ELSE 0))
        U1(est, c1) ==
          U2(est, est * d[2] + c1 \div 2^14, 2^14 - (c1 % 2^14))
        Estimated(est) == U1(est, est * d[1])
    IN  Estimated((r[4] * 2^20 + r[3] * 2^6 + r[2] \div 2^8)
                    \div (d[4] * 2^6 + d[3] \div 2^8 + 1))

\* x / y for y > 0: the leading bit of the quotient of the mantissas, then
\* four digits of 14 bits; a remainder makes the lowest bit odd.
FloatDiv(x, y) ==
    LET Quotient(bit, k1, k2, k3, k4) ==
          LET L == (k2.q % 4) * 2^28 + k3.q * 2^14 + k4.q
              H == (IF bit THEN 2^26 ELSE 0) + k1.q * 2^12 + k2.q \div 4
          IN  FloatRound(H,
                         IF k4.r # <<0, 0, 0, 0>> /\ L % 2 = 0 THEN L + 1 ELSE L,
                         x.e - y.e - 56)
        D4(d, bit, k1, k2, k3) == Quotient(bit, k1, k2, k3, FloatDivStep(k3.r, d))
        D3(d, bit, k1, k2) == D4(d, bit, k1, k2, FloatDivStep(k2.r, d))
        D2(d, bit, k1) == D3(d, bit, k1, FloatDivStep(k1.r, d))
        D1(d, bit, rh, rl) ==
          D2(d, bit, FloatDivStep(FloatDigits([hi |-> rh, lo |-> rl]), d))
        Leading(bit) ==
          D1(FloatDigits(y), bit,
             IF ~bit THEN x.hi ELSE IF x.lo >= y.lo THEN x.hi - y.hi
             ELSE x.hi - y.hi - 1,
             IF ~bit THEN x.lo ELSE IF x.lo >= y.lo THEN x.lo - y.lo
             ELSE x.lo - y.lo + 2^27)
    IN  IF x.hi = 0 THEN FloatZero
        ELSE Leading(x.hi > y.hi \/ (x.hi = y.hi /\ x.lo >= y.lo))

\* int(ceil(x)) for x < 2^30
Ceil(x) ==
    IF x.hi = 0 THEN 0
    ELSE IF x.e <= -53 THEN 1
    ELSE IF x.e <= -27
    THEN x.hi \div 2^(0 - x.e - 27)
         + (IF x.hi % 2^(0 - x.e - 27) # 0 \/ x.lo # 0 THEN 1 ELSE 0)
    ELSE x.hi * 2^(27 + x.e) + x.lo \div 2^(0 - x.e)
         + (IF x.lo % 2^(0 - x.e) # 0 THEN 1 ELSE 0)

----------------------------------------------------------------------------
(* The real numbers the floats stand for, where a property speaks of the   *)
(* times themselves and not of their roundings.  A real x >= 0 that is a   *)
(* multiple of 2^-62 is kept as seven digits of 15 bits of x * 2^62, the   *)
(* lowest first; every float that is 0 or lies in 2^-10 <= x < 2^18 is     *)
(* such a multiple, and sums and integer multiples of them below 2^43 are. *)

ExactZero == <<0, 0, 0, 0, 0, 0, 0>>

\* The digits of a number whose digits are given with their carries still
\* in them, each below 2^30.
RECURSIVE ExactCarry(_, _, _)
ExactCarry(raw, i, carry) ==
    IF i > Len(raw) THEN <<>>
    ELSE <<(raw[i] + carry) % 2^15>>
           \o ExactCarry(raw, i + 1, (raw[i] + carry) \div 2^15)

\* The value of the float x, for x = 0 or 2^-10 <= x < 2^18.
Exact(x) ==
    LET d1 == x.lo % 2^15
        d2 == x.lo \div 2^15 + (x.hi % 2^3) * 2^12
        d3 == (x.hi \div 2^3) % 2^15
        d4 == x.hi \div 2^18
        Shifted(k) == <<d1 * 2^k, d2 * 2^k, d3 * 2^k, d4 * 2^k>>
    IN  IF x.hi = 0 THEN ExactZero
        ELSE IF x.e + 62 < 15
        THEN ExactCarry(Shifted(x.e + 62) \o <<0, 0, 0>>, 1, 0)
        ELSE ExactCarry(<<0>> \o Shifted(x.e + 47) \o <<0, 0>>, 1, 0)

\* The integer n, for 0 <= n < 2^31.
ExactInt(n) ==
    ExactCarry(<<0, 0, 0, 0, (n % 2^15) * 4, ((n \div 2^15) % 2^15) * 4,
                 (n \div 2^30) * 4>>, 1, 0)

\* X + Y
ExactPlus(X, Y) == ExactCarry([i \in 1..Len(X) |-> X[i] + Y[i]], 1, 0)

\* c * X for an integer 0 <= c < 2^30: c is taken in two digits.
ExactTimes(c, X) ==
    LET low == ExactCarry([i \in 1..Len(X) |-> X[i] * (c % 2^15)], 1, 0)
        high == ExactCarry([i \in 1..Len(X) |-> X[i] * (c \div 2^15)], 1, 0)
    IN  ExactPlus(low, [i \in 1..Len(X) |-> IF i = 1 THEN 0 ELSE high[i - 1]])

\* X < Y
ExactLess(X, Y) ==
    \E i \in 1..Len(X) : /\ X[i] < Y[i]
                         /\ \A j \in (i + 1)..Len(X) : X[j] = Y[j]

----------------------------------------------------------------------------
(* time.time(): the wall clock, read to the millisecond.                    *)

TicksPerSecond == 1000

\* time(): the float of the reading `fraction` milliseconds past the second
\* `time`, the double nearest to it.
WallClock(time, fraction) ==
    IF fraction = 0 THEN Float(time)
    ELSE FloatDiv(Float(time * TicksPerSecond + fraction), Float(TicksPerSecond))

----------------------------------------------------------------------------
(* bucket.py: Bucket.  self is the record of the fields that __init__ sets *)
(* (max_count, leak_rate, drain_period) and users the dict _users, which   *)
(* holds the floats the code stores; None is what dict.get returns for a   *)
(* missing key.  time is the float the caller passes: time() in app.py, a   *)
(* whole number in the component tests, which Python turns into a float    *)
(* where it adds it to a float or compares it with one.                    *)

None == [hi |-> -1, lo |-> 0, e |-> 0]

\* Bucket(max_count, drain_period): __init__
Bucket_init(max_count, drain_period) ==
    [max_count |-> max_count,
     leak_rate |-> FloatDiv(Float(max_count), Float(drain_period)),
     drain_period |-> Float(drain_period)]

Bucket_userCount(users) == Cardinality(DOMAIN users)

Bucket_currentSizeForUser(self, users, user, time) ==
    IF user \notin DOMAIN users THEN 0
    ELSE IF FloatLess(users[user], time) THEN self.max_count
    ELSE Ceil(FloatMul(FloatSub(users[user], time), self.leak_rate))

\* Variant: an admitted call fills the bucket from the time of the call,
\* forgetting what is still in it.
Bucket_userCanSyncAmount_Restart(self, users, user, amount, time) ==
    LET Fresh(timestamp) ==
          [ret |-> TRUE, users |-> DictSet(users, user, timestamp)]
        More(timestamp) ==
          IF FloatLess(FloatAdd(time, self.drain_period),
                       timestamp)
          THEN [ret |-> FALSE, users |-> users]
          ELSE [ret |-> TRUE, users |-> DictSet(users, user,
                                FloatAdd(time,
                                         FloatDiv(Float(amount), self.leak_rate)))]
    IN  IF amount > self.max_count
        THEN [ret |-> FALSE, users |-> users]
        ELSE IF user \notin DOMAIN users
        THEN Fresh(FloatAdd(time, FloatDiv(Float(amount), self.leak_rate)))
        ELSE IF FloatLess(users[user], time)
        THEN Fresh(FloatAdd(time, FloatDiv(Float(amount), self.leak_rate)))
        ELSE More(FloatAdd(users[user], FloatDiv(Float(amount), self.leak_rate)))

\* Variant: the new timestamp is stored before the horizon is checked.
Bucket_userCanSyncAmount_WriteFirst(self, users, user, amount, time) ==
    LET Fresh(timestamp) ==
          [ret |-> TRUE, users |-> DictSet(users, user, timestamp)]
        More(timestamp) ==
          IF FloatLess(FloatAdd(time, self.drain_period),
                       timestamp)
          THEN [ret |-> FALSE, users |-> DictSet(users, user, timestamp)]
          ELSE [ret |-> TRUE, users |-> DictSet(users, user, timestamp)]
    IN  IF amount > self.max_count
        THEN [ret |-> FALSE, users |-> users]
        ELSE IF user \notin DOMAIN users
        THEN Fresh(FloatAdd(time, FloatDiv(Float(amount), self.leak_rate)))
        ELSE IF FloatLess(users[user], time)
        THEN Fresh(FloatAdd(time, FloatDiv(Float(amount), self.leak_rate)))
        ELSE More(FloatAdd(users[user], FloatDiv(Float(amount), self.leak_rate)))

\* Returns the value returned and the dict after the call: Fresh is the
\* write of lines 99 and 104, More the rest from line 107 on.
Bucket_userCanSyncAmount(self, users, user, amount, time) ==
    LET Fresh(timestamp) ==
          [ret |-> TRUE, users |-> DictSet(users, user, timestamp)]
        More(timestamp) ==
          IF FloatLess(FloatAdd(time, self.drain_period),
                       timestamp)
          THEN [ret |-> FALSE, users |-> users]
          ELSE [ret |-> TRUE, users |-> DictSet(users, user, timestamp)]
    IN  IF amount > self.max_count
        THEN [ret |-> FALSE, users |-> users]
        ELSE IF user \notin DOMAIN users
        THEN Fresh(FloatAdd(time, FloatDiv(Float(amount), self.leak_rate)))
        ELSE IF FloatLess(users[user], time)
        THEN Fresh(FloatAdd(time, FloatDiv(Float(amount), self.leak_rate)))
        ELSE More(FloatAdd(users[user], FloatDiv(Float(amount), self.leak_rate)))

\* Variant: an entry that drains within the next second is removed too.
Bucket_cleanUsers_Early(users, time) ==
    [k \in {x \in DOMAIN users : FloatLess(FloatAdd(time, Float(1)), users[x])} |-> users[k]]

Bucket_cleanUsers(users, time) ==
    [k \in {x \in DOMAIN users : FloatLess(time, users[x])} |-> users[k]]

Bucket_clear(users) == EmptyDict

\* app.py: s1_buckets = Bucket(max_contacts, drain_period=s2_delta)
B_full == Bucket_init(max_contacts, s2_delta)

\* app.py: s2_buckets = Bucket(max_contacts, drain_period=s2_period)
B_inc == Bucket_init(max_contacts, s2_period)

----------------------------------------------------------------------------
(* The stand-alone bucket of the component tests, myBucket = Bucket(20000,  *)
(* drain_period=86400).  It takes its calls at any times, earlier ones than *)
(* the call before included, as test_bucket_sync_multiple does; the times   *)
(* are whole seconds, as in the component tests, or readings of the wall    *)
(* clock with a fraction of a second, as app.py passes them (time=time()).  *)

\* Bucket(20000, 86400) is the bucket of the component tests.  Bucket(2, 4)
\* has leak rate 0.5 and amount / 0.5 is exact; Bucket(3, 1) has leak rate
\* 3.0 and amount / 3.0 is rounded; Bucket(2, 49) has a leak rate that is
\* rounded down, so that max_count / leak_rate is more than the drain
\* period.
BucketArgs == {[max_count |-> 2, drain_period |-> 4],
               [max_count |-> 3, drain_period |-> 1],
               [max_count |-> 2, drain_period |-> 49],
               [max_count |-> 20000, drain_period |-> 86400]}

test_max_count == myBucket.max_count

\* The drain period as the whole number it was given as.
test_drain_period == Ceil(myBucket.drain_period)

\* The fractions of a second, in milliseconds, of the times of the calls.
BucketFractions == {0, 1}

\* The seconds of the times of the calls: the start, half the drain period,
\* the drain period and up to MaxBucketTime seconds past it.
BucketSeconds ==
    {0, test_drain_period \div 2}
      \cup (test_drain_period..(test_drain_period + MaxBucketTime))

BucketTimes == {WallClock(s, f) : s \in BucketSeconds, f \in BucketFractions}

\* The amounts of the calls: nothing, one contact, a full bucket and one
\* more than that.
BucketAmounts == {0, 1, test_max_count, test_max_count + 1}

\* The stored timestamp of a user, None when there is none (dict.get).
Bucket_get(users, user) == IF user \in DOMAIN users THEN users[user] ELSE None

NoCall == [op |-> "none", user |-> "", amount |-> 0, time |-> FloatZero,
           before |-> None, ret |-> FALSE, table |-> FALSE]

\* The decision table of admit(user, amount, now), rows in order, in the
\* arithmetic of the real numbers: now is the value of the float passed,
\* and tau is kept multiplied by C, C * tau = C * now + amount * P.
AdmitTable(users, C, P, user, amount, now) ==
    LET start == ExactTimes(C, Exact(now))
        more == ExactInt(amount * P)
        horizon == ExactPlus(start, ExactInt(C * P))
    IN  CASE amount > C ->
               [ret |-> FALSE, users |-> users]
          [] amount <= C /\ user \notin DOMAIN users ->
               [ret |-> TRUE, users |-> DictSet(users, user, ExactPlus(start, more))]
          [] amount <= C /\ user \in DOMAIN users
               /\ ~ExactLess(start, users[user]) ->
               [ret |-> TRUE, users |-> DictSet(users, user, ExactPlus(start, more))]
          [] amount <= C /\ user \in DOMAIN users
               /\ ExactLess(start, users[user])
               /\ ExactLess(horizon, ExactPlus(users[user], more)) ->
               [ret |-> FALSE, users |-> users]
          [] OTHER ->
               [ret |-> TRUE,
                users |-> DictSet(users, user, ExactPlus(users[user], more))]

\* sweep(now) of the same table.
SweepTable(users, C, now) ==
    [k \in {x \in DOMAIN users : ExactLess(ExactTimes(C, Exact(now)), users[x])}
       |-> users[k]]

\* myBucket = Bucket(max_count, drain_period=drain_period)
BucketNew(args) ==
    /\ myBucket' = Bucket_init(args.max_count, args.drain_period)
    /\ bucket' = EmptyDict
    /\ btime' = FloatZero
    /\ bcall' = [NoCall EXCEPT !.op = "new"]
    /\ bcalls' = 0
    /\ ordered' = TRUE
    /\ ideal' = EmptyDict
    /\ admitted' = <<>>
    /\ UNCHANGED appVars
    /\ UNCHANGED setVars

BucketSync(user, amount, time) ==
    LET r == Bucket_userCanSyncAmount(myBucket, bucket, user, amount, time)
        t == AdmitTable(ideal, test_max_count, test_drain_period,
                        user, amount, time)
    IN  /\ bcalls < MaxCalls
        /\ bucket' = r.users
        /\ btime' = time
        /\ bcall' = [op |-> "sync", user |-> user, amount |-> amount,
                     time |-> time, before |-> Bucket_get(bucket, user),
                     ret |-> r.ret, table |-> t.ret]
        /\ bcalls' = bcalls + 1
        /\ ordered' = (ordered /\ ~FloatLess(time, btime))
        /\ ideal' = t.users
        /\ UNCHANGED <<myBucket, admitted>>
        /\ UNCHANGED appVars
        /\ UNCHANGED setVars

BucketClean(time) ==
    /\ bcalls < MaxCalls
    /\ bucket' = Bucket_cleanUsers(bucket, time)
    /\ btime' = time
    /\ bcall' = [NoCall EXCEPT !.op = "clean", !.time = time]
    /\ bcalls' = bcalls + 1
    /\ ordered' = (ordered /\ ~FloatLess(time, btime))
    /\ ideal' = SweepTable(ideal, test_max_count, time)
    /\ UNCHANGED <<myBucket, admitted>>
    /\ UNCHANGED appVars
    /\ UNCHANGED setVars

BucketClear ==
    /\ bcalls < MaxCalls
    /\ bucket' = Bucket_clear(bucket)
    /\ btime' = FloatZero
    /\ bcall' = [NoCall EXCEPT !.op = "clear"]
    /\ bcalls' = bcalls + 1
    /\ ordered' = TRUE
    /\ ideal' = EmptyDict
    /\ UNCHANGED <<myBucket, admitted>>
    /\ UNCHANGED appVars
    /\ UNCHANGED setVars

NextBucket ==
    \/ \E args \in BucketArgs : BucketNew(args) /\ UNCHANGED unswept
    \/ \E user \in BucketUsers, amount \in BucketAmounts, time \in BucketTimes :
          BucketSync(user, amount, time) /\ UNCHANGED unswept
    \/ \E time \in BucketTimes : BucketClean(time) /\ UNCHANGED unswept
    \/ BucketClear /\ UNCHANGED unswept

\* One user of the stand-alone bucket, with the calls admitted since the
\* bucket was made, in their order, for as long as the calls come in the
\* order of their times.
RateUsers == {"a"}

RateNew(args) ==
    /\ BucketNew(args)
    /\ UNCHANGED unswept

RateSync(user, amount, time) ==
    LET r == Bucket_userCanSyncAmount(myBucket, bucket, user, amount, time)
        t == AdmitTable(ideal, test_max_count, test_drain_period,
                        user, amount, time)
    IN  /\ bcalls < MaxCalls
        /\ bucket' = r.users
        /\ btime' = time
        /\ bcall' = [op |-> "sync", user |-> user, amount |-> amount,
                     time |-> time, before |-> Bucket_get(bucket, user),
                     ret |-> r.ret, table |-> t.ret]
        /\ bcalls' = bcalls + 1
        /\ ordered' = (ordered /\ ~FloatLess(time, btime))
        /\ ideal' = t.users
        /\ admitted' = IF ~ordered' THEN <<>>
                       ELSE IF r.ret
                       THEN Append(admitted, [time |-> time, amount |-> amount])
                       ELSE admitted
        /\ UNCHANGED <<myBucket, unswept>>
        /\ UNCHANGED appVars
        /\ UNCHANGED setVars

NextRate ==
    \/ \E args \in BucketArgs : RateNew(args)
    \/ \E user \in RateUsers, amount \in BucketAmounts, time \in BucketTimes :
          RateSync(user, amount, time)

\* The stand-alone bucket next to the same bucket had cleanUsers never run:
\* unswept.users receives every userCanSyncAmount call and no cleanUsers
\* call, unswept.before is the timestamp the latest call found there,
\* unswept.floor the greatest time cleanUsers was called with and
\* unswept.valid says that no userCanSyncAmount call came with a time
\* earlier than a cleanUsers call before it; once one has, the history is
\* dropped (Unfollowed) until the bucket is made anew or cleared.
NoShadow == [users |-> EmptyDict, before |-> None, floor |-> FloatZero,
             valid |-> TRUE]

Unfollowed == [NoShadow EXCEPT !.valid = FALSE]

\* In these runs the calls are not counted and the histories ideal and
\* admitted are not kept.
ShadowNew(args) ==
    /\ myBucket' = Bucket_init(args.max_count, args.drain_period)
    /\ bucket' = EmptyDict
    /\ btime' = FloatZero
    /\ bcall' = [NoCall EXCEPT !.op = "new"]
    /\ ordered' = TRUE
    /\ unswept' = NoShadow
    /\ UNCHANGED <<bcalls, ideal, admitted>>
    /\ UNCHANGED appVars
    /\ UNCHANGED setVars

ShadowSync(user, amount, time) ==
    LET r == Bucket_userCanSyncAmount(myBucket, bucket, user, amount, time)
        shadow == Bucket_userCanSyncAmount(myBucket, unswept.users,
                                           user, amount, time)
    IN  /\ bucket' = r.users
        /\ btime' = time
        /\ bcall' = [op |-> "sync", user |-> user, amount |-> amount,
                     time |-> time, before |-> Bucket_get(bucket, user),
                     ret |-> r.ret, table |-> FALSE]
        /\ ordered' = (ordered /\ ~FloatLess(time, btime))
        /\ unswept' = IF unswept.valid /\ ~FloatLess(time, unswept.floor)
                       THEN [users |-> shadow.users,
                             before |-> Bucket_get(unswept.users, user),
                             floor |-> unswept.floor,
                             valid |-> TRUE]
                       ELSE Unfollowed
        /\ UNCHANGED <<myBucket, bcalls, ideal, admitted>>
        /\ UNCHANGED appVars
        /\ UNCHANGED setVars

ShadowClean(time) ==
    /\ bucket' = Bucket_cleanUsers(bucket, time)
    /\ btime' = time
    /\ bcall' = [NoCall EXCEPT !.op = "clean", !.time = time]
    /\ ordered' = (ordered /\ ~FloatLess(time, btime))
    /\ unswept' = IF unswept.valid
                   THEN [unswept EXCEPT
                           !.floor = IF FloatLess(@, time) THEN time ELSE @]
                   ELSE Unfollowed
    /\ UNCHANGED <<myBucket, bcalls, ideal, admitted>>
    /\ UNCHANGED appVars
    /\ UNCHANGED setVars

ShadowClear ==
    /\ bucket' = Bucket_clear(bucket)
    /\ btime' = FloatZero
    /\ bcall' = [NoCall EXCEPT !.op = "clear"]
    /\ ordered' = TRUE
    /\ unswept' = [NoShadow EXCEPT !.users = Bucket_clear(unswept.users)]
    /\ UNCHANGED <<myBucket, bcalls, ideal, admitted>>
    /\ UNCHANGED appVars
    /\ UNCHANGED setVars

\* The times of the calls of the runs with sweeps: a millisecond past the
\* start and a millisecond past the drain period.
ShadowTimes == {WallClock(0, 1), WallClock(test_drain_period, 1)}

\* The amounts of these calls: nothing, half a bucket, a full bucket and
\* one more than that.
ShadowAmounts ==
    {0, test_max_count \div 2, test_max_count, test_max_count + 1}

NextClean ==
    \/ \E args \in BucketArgs : ShadowNew(args)
    \/ \E user \in BucketUsers, amount \in ShadowAmounts,
          time \in ShadowTimes : ShadowSync(user, amount, time)
    \/ \E time \in ShadowTimes : ShadowClean(time)
    \/ ShadowClear

----------------------------------------------------------------------------
(* The stand-alone sets of the component tests: mySet = UserSet() and       *)
(* myExpSet = ExpiringUserSet(expiration_time=86400), the expiration time   *)
(* scaled down.  Users and tokens are random byte strings there.            *)

test_expiration_time == 2

MaxSetTime == 2

SetUsers == {"a", "b"}
SetTokens == {"x", "y"}

\* The lists passed to containedUsers: up to three identifiers, repeats
\* included.
SetLists == SeqsUpTo(SetUsers, 3)

NoSetCall == [set |-> "none", op |-> "none", user |-> "", ids |-> <<>>,
              before |-> EmptyDict, ret |-> <<>>, removed |-> 0]

NeverWritten == [live |-> FALSE, token |-> ""]

SetFrame == UNCHANGED appVars /\ UNCHANGED bucketVars

UserSetAdd(user, auth_token) ==
    /\ mySet' = UserSet_addUser(mySet, user, auth_token)
    /\ setCall' = [NoSetCall EXCEPT !.set = "UserSet", !.op = "addUser",
                                    !.user = user, !.before = mySet]
    /\ written' = [written EXCEPT ![user] = [live |-> TRUE, token |-> auth_token]]
    /\ UNCHANGED <<myExpSet, addedAt>>
    /\ SetFrame

UserSetRemove(user) ==
    /\ mySet' = UserSet_removeUser(mySet, user)
    /\ setCall' = [NoSetCall EXCEPT !.set = "UserSet", !.op = "removeUser",
                                    !.user = user, !.before = mySet]
    /\ written' = [written EXCEPT ![user].live = FALSE]
    /\ UNCHANGED <<myExpSet, addedAt>>
    /\ SetFrame

UserSetContained(ids) ==
    /\ setCall' = [NoSetCall EXCEPT !.set = "UserSet", !.op = "containedUsers",
                                    !.ids = ids, !.before = mySet,
                                    !.ret = UserSet_containedUsers(mySet, ids)]
    /\ UNCHANGED <<mySet, written, myExpSet, addedAt>>
    /\ SetFrame

UserSetClear ==
    /\ mySet' = UserSet_clear(mySet)
    /\ setCall' = [NoSetCall EXCEPT !.set = "UserSet", !.op = "clear",
                                    !.before = mySet]
    /\ written' = [u \in SetUsers |-> [written[u] EXCEPT !.live = FALSE]]
    /\ UNCHANGED <<myExpSet, addedAt>>
    /\ SetFrame

ExpSetAdd(user, time) ==
    /\ myExpSet' = ExpiringUserSet_addUser(myExpSet, test_expiration_time, user, time)
    /\ setCall' = [NoSetCall EXCEPT !.set = "ExpiringUserSet", !.op = "addUser",
                                    !.user = user, !.before = myExpSet]
    /\ addedAt' = [addedAt EXCEPT ![user] = time]
    /\ UNCHANGED <<mySet, written>>
    /\ SetFrame

ExpSetRemove(user) ==
    /\ myExpSet' = ExpiringUserSet_removeUser(myExpSet, user)
    /\ setCall' = [NoSetCall EXCEPT !.set = "ExpiringUserSet", !.op = "removeUser",
                                    !.user = user, !.before = myExpSet]
    /\ UNCHANGED <<mySet, written, addedAt>>
    /\ SetFrame

ExpSetContained(ids) ==
    /\ setCall' = [NoSetCall EXCEPT !.set = "ExpiringUserSet",
                                    !.op = "containedUsers",
                                    !.ids = ids, !.before = myExpSet,
                                    !.ret = ExpiringUserSet_containedUsers(myExpSet, ids)]
    /\ UNCHANGED <<mySet, written, myExpSet, addedAt>>
    /\ SetFrame

ExpSetUpdate(time) ==
    LET r == ExpiringUserSet_update(myExpSet, time)
    IN  /\ myExpSet' = r.users
        /\ setCall' = [NoSetCall EXCEPT !.set = "ExpiringUserSet", !.op = "update",
                                        !.before = myExpSet, !.removed = r.removed]
        /\ UNCHANGED <<mySet, written, addedAt>>
        /\ SetFrame

ExpSetClear ==
    /\ myExpSet' = ExpiringUserSet_clear(myExpSet)
    /\ setCall' = [NoSetCall EXCEPT !.set = "ExpiringUserSet", !.op = "clear",
                                    !.before = myExpSet]
    /\ UNCHANGED <<mySet, written, addedAt>>
    /\ SetFrame

NextSets ==
    \/ \E user \in SetUsers, auth_token \in SetTokens : UserSetAdd(user, auth_token)
    \/ \E user \in SetUsers : UserSetRemove(user)
    \/ \E ids \in SetLists : UserSetContained(ids)
    \/ UserSetClear
    \/ \E user \in SetUsers, time \in 0..MaxSetTime : ExpSetAdd(user, time)
    \/ \E user \in SetUsers : ExpSetRemove(user)
    \/ \E ids \in SetLists : ExpSetContained(ids)
    \/ \E time \in 0..(MaxSetTime + test_expiration_time) : ExpSetUpdate(time)
    \/ ExpSetClear

----------------------------------------------------------------------------
(* app.py: requests and responses.  A request body is either a serialized  *)
(* Messages_pb2.Request ("message") or bytes that do not parse ("invalid"). *)
(* The empty body is the serialization of the message whose three fields    *)
(* have their default values: user "", auth_token "", no identifiers.       *)

NoError == -1

InvalidBody == [kind |-> "invalid", user |-> "", auth_token |-> "",
                identifiers |-> <<>>]

Message(user, auth_token, identifiers) ==
    [kind |-> "message", user |-> user, auth_token |-> auth_token,
     identifiers |-> identifiers]

EmptyBody == Message("", "", <<>>)

\* Bodies sent to /user/register and /user/delete carry no identifiers.
UserBodies(users, tokens) ==
    {InvalidBody} \cup {Message(u, t, <<>>) : u \in users, t \in tokens}

\* Bodies sent to the discovery endpoints: lists of up to max_contacts + 1
\* identifiers, one more than a sync may carry.
SyncBodies(users, tokens, contacts) ==
    {InvalidBody} \cup
    {Message(u, t, ids) : u \in users, t \in tokens,
                          ids \in SeqsUpTo(contacts, max_contacts + 1)}

NoRequest == [endpoint |-> "none", kind |-> "none", user |-> "", auth_token |-> "",
              identifiers |-> <<>>, number |-> 0]

Request(endpoint, body) ==
    [endpoint |-> endpoint, kind |-> body.kind, user |-> body.user,
     auth_token |-> body.auth_token, identifiers |-> body.identifiers,
     number |-> 0]

NoResponse == [result |-> SUCCESS, added_users |-> <<>>, removed_users |-> <<>>,
               text |-> "none"]

makeErrorResponse(result) ==
    [result |-> result, added_users |-> <<>>, removed_users |-> <<>>, text |-> ""]

makeResponse(added, removed) ==
    [result |-> SUCCESS, added_users |-> added, removed_users |-> removed,
     text |-> ""]

\* The reply of an endpoint that answers with plain text, and of a handler
\* whose exception is not caught (a transport-level error).
TextResponse(text) ==
    [result |-> SUCCESS, added_users |-> <<>>, removed_users |-> <<>>,
     text |-> text]

\* request.get_data() returns bytes, never None, so MissingDataError is not
\* raised for any body; ParseFromString fails on bytes that do not parse.
getDataFromRequest(body) ==
    IF body.kind = "none"
    THEN [error |-> REQUEST_DATA_MISSING, user |-> "", auth_token |-> "",
          identifiers |-> <<>>]
    ELSE IF body.kind = "invalid"
    THEN [error |-> REQUEST_DATA_INVALID, user |-> "", auth_token |-> "",
          identifiers |-> <<>>]
    ELSE [error |-> NoError, user |-> body.user, auth_token |-> body.auth_token,
          identifiers |-> body.identifiers]

checkAuthentication(users, body) ==
    LET d == getDataFromRequest(body)
    IN  IF d.error # NoError THEN d
        ELSE IF ~UserSet_isValidUser(users, d.user, d.auth_token)
        THEN [d EXCEPT !.error = AUTHENTICATION_INVALID]
        ELSE d

\* Variant: the length of the list is checked before the credentials.
checkAuthenticationAndExtractIdentifiers_LengthFirst(users, body) ==
    LET d == getDataFromRequest(body)
    IN  IF d.error # NoError THEN d
        ELSE IF Len(d.identifiers) > max_contacts
        THEN [d EXCEPT !.error = RATE_LIMIT_EXCEEDED]
        ELSE checkAuthentication(users, body)

\* Variant: a list of exactly max_contacts identifiers is refused.
checkAuthenticationAndExtractIdentifiers_AtLeast(users, body) ==
    LET d == checkAuthentication(users, body)
    IN  IF d.error # NoError THEN d
        ELSE IF Len(d.identifiers) >= max_contacts
        THEN [d EXCEPT !.error = RATE_LIMIT_EXCEEDED]
        ELSE d

checkAuthenticationAndExtractIdentifiers(users, body) ==
    LET d == checkAuthentication(users, body)
    IN  IF d.error # NoError THEN d
        ELSE IF Len(d.identifiers) > max_contacts
        THEN [d EXCEPT !.error = RATE_LIMIT_EXCEEDED]
        ELSE d

----------------------------------------------------------------------------
(* app.py: user management on the three user sets, here a record            *)
(* [s1, s2_added, s2_removed]; time is the value _time() returns.           *)

Sets == [s1 |-> s1, s2_added |-> s2_added, s2_removed |-> s2_removed]

\* Variant: the user is left in the set of removed users.
addNewUser_KeepRemoved(sets, user, auth_token, time) ==
    [s1 |-> UserSet_addUser(sets.s1, user, auth_token),
     s2_added |-> ExpiringUserSet_addUser(sets.s2_added, s2_delta, user, time),
     s2_removed |-> sets.s2_removed]

addNewUser(sets, user, auth_token, time) ==
    [s1 |-> UserSet_addUser(sets.s1, user, auth_token),
     s2_added |-> ExpiringUserSet_addUser(sets.s2_added, s2_delta, user, time),
     s2_removed |-> ExpiringUserSet_removeUser(sets.s2_removed, user)]

\* Variant: the user is left in the set of added users.
removeUser_KeepAdded(sets, user, time) ==
    [s1 |-> UserSet_removeUser(sets.s1, user),
     s2_added |-> sets.s2_added,
     s2_removed |-> ExpiringUserSet_addUser(sets.s2_removed, s2_delta, user, time)]

removeUser(sets, user, time) ==
    [s1 |-> UserSet_removeUser(sets.s1, user),
     s2_added |-> ExpiringUserSet_removeUser(sets.s2_added, user),
     s2_removed |-> ExpiringUserSet_addUser(sets.s2_removed, s2_delta, user, time)]

\* Variant: only the set of added users is swept.
updateUserSets_AddedOnly(sets, currentTime) ==
    [s1 |-> sets.s1,
     s2_added |-> ExpiringUserSet_update(sets.s2_added, currentTime).users,
     s2_removed |-> sets.s2_removed]

updateUserSets(sets, currentTime) ==
    [s1 |-> sets.s1,
     s2_added |-> ExpiringUserSet_update(sets.s2_added, currentTime).users,
     s2_removed |-> ExpiringUserSet_update(sets.s2_removed, currentTime).users]

\* addNewUser for each (identifier, token) pair of a list, in order; every
\* call reads the clock for itself, times[i] is the reading of the i-th call.
RECURSIVE addNewUsers(_, _, _)
addNewUsers(sets, pairs, times) ==
    IF pairs = <<>> THEN sets
    ELSE addNewUsers(addNewUser(sets, Head(pairs)[1], Head(pairs)[2], Head(times)),
                     Tail(pairs), Tail(times))

\* History: the latest registration event of each identifier.
NoEvent == [kind |-> "none", time |-> 0]

Registered(events, users, time) ==
    [u \in Identifiers |->
        IF u \in users THEN [kind |-> "register", time |-> time] ELSE events[u]]

\* The registrations of a list of users, the i-th at times[i].
RECURSIVE RegisteredEach(_, _, _)
RegisteredEach(events, users, times) ==
    IF users = <<>> THEN events
    ELSE RegisteredEach(Registered(events, {Head(users)}, Head(times)),
                        Tail(users), Tail(times))

Unregistered(events, user, time) ==
    [events EXCEPT ![user] = [kind |-> "unregister", time |-> time]]

----------------------------------------------------------------------------
(* app.py: the request handlers.  Every handler is _catchRequestErrors      *)
(* applied to its callback: the sweep _updateUserSets() reads the clock     *)
(* first (the unprimed clock), the callback reads it again at `time`.       *)
(* addNewUser and removeUser read _time(), the whole second `time`; the     *)
(* discovery callbacks read time(), `fraction` milliseconds past the whole  *)
(* second `time`.                                                           *)

Times == {t \in clock..(clock + MaxStep) : t <= MaxTime}

\* The fractions of a second, in milliseconds, at which the requests of the
\* runs explored read the wall clock.
Fractions == {0, 500}

\* The fractions of the second `time` the wall clock can show when it is
\* read next: it does not run backwards.
FractionsFrom(time) == {f \in Fractions : time > clock \/ f >= frac}

\* _time() drops the fraction of the reading: after it the wall clock is
\* known to have reached the second `time`, and the fraction read last when
\* that second is the one it was in.
Truncated(time) == IF time = clock THEN frac ELSE 0

\* The clock readings of a loop of n iterations: one reading an iteration,
\* none before the one that precedes it.
ClockReads(times, n) ==
    /\ Len(times) = n
    /\ \A i \in 1..n : times[i] \in Times /\ (i > 1 => times[i - 1] <= times[i])

LastRead(times) == IF times = <<>> THEN clock ELSE times[Len(times)]

\* Variant: one bucket limits both kinds of sync, a full sync is charged to
\* s2_buckets.
fullDiscovery_OneBucket(body, time, fraction) ==
    LET swept == updateUserSets(Sets, clock)
        d == checkAuthenticationAndExtractIdentifiers(swept.s1, body)
        r == Bucket_userCanSyncAmount(B_inc, s2_buckets,
                                      d.user, Len(d.identifiers),
                                      WallClock(time, fraction))
    IN  /\ request' = Request("full", body)
        /\ clock' = time
        /\ frac' = fraction
        /\ s1' = swept.s1
        /\ s2_added' = swept.s2_added
        /\ s2_removed' = swept.s2_removed
        /\ UNCHANGED <<s1_buckets, lastEvent>>
        /\ IF d.error # NoError
           THEN /\ response' = makeErrorResponse(d.error)
                /\ UNCHANGED s2_buckets
           ELSE IF Len(d.identifiers) = 0
           THEN /\ response' = makeResponse(<<>>, <<>>)
                /\ UNCHANGED s2_buckets
           ELSE IF ~r.ret
           THEN /\ response' = makeErrorResponse(RATE_LIMIT_EXCEEDED)
                /\ s2_buckets' = r.users
           ELSE /\ response' = makeResponse(
                        UserSet_containedUsers(swept.s1, d.identifiers), <<>>)
                /\ s2_buckets' = r.users
        /\ UNCHANGED <<bucketVars, setVars>>

\* Variant: an empty list is passed to the bucket like any other.
fullDiscovery_NoShortCut(body, time, fraction) ==
    LET swept == updateUserSets(Sets, clock)
        d == checkAuthenticationAndExtractIdentifiers(swept.s1, body)
        r == Bucket_userCanSyncAmount(B_full, s1_buckets,
                                      d.user, Len(d.identifiers),
                                      WallClock(time, fraction))
    IN  /\ request' = Request("full", body)
        /\ clock' = time
        /\ frac' = fraction
        /\ s1' = swept.s1
        /\ s2_added' = swept.s2_added
        /\ s2_removed' = swept.s2_removed
        /\ UNCHANGED <<s2_buckets, lastEvent>>
        /\ IF d.error # NoError
           THEN /\ response' = makeErrorResponse(d.error)
                /\ UNCHANGED s1_buckets
           ELSE IF ~r.ret
           THEN /\ response' = makeErrorResponse(RATE_LIMIT_EXCEEDED)
                /\ s1_buckets' = r.users
           ELSE /\ response' = makeResponse(
                        UserSet_containedUsers(swept.s1, d.identifiers), <<>>)
                /\ s1_buckets' = r.users
        /\ UNCHANGED <<bucketVars, setVars>>

fullDiscovery(body, time, fraction) ==
    LET swept == updateUserSets(Sets, clock)
        d == checkAuthenticationAndExtractIdentifiers(swept.s1, body)
        r == Bucket_userCanSyncAmount(B_full, s1_buckets,
                                      d.user, Len(d.identifiers),
                                      WallClock(time, fraction))
    IN  /\ request' = Request("full", body)
        /\ clock' = time
        /\ frac' = fraction
        /\ s1' = swept.s1
        /\ s2_added' = swept.s2_added
        /\ s2_removed' = swept.s2_removed
        /\ UNCHANGED <<s2_buckets, lastEvent>>
        /\ IF d.error # NoError
           THEN /\ response' = makeErrorResponse(d.error)
                /\ UNCHANGED s1_buckets
           ELSE IF Len(d.identifiers) = 0
           THEN /\ response' = makeResponse(<<>>, <<>>)
                /\ UNCHANGED s1_buckets
           ELSE IF ~r.ret
           THEN /\ response' = makeErrorResponse(RATE_LIMIT_EXCEEDED)
                /\ s1_buckets' = r.users
           ELSE /\ response' = makeResponse(
                        UserSet_containedUsers(swept.s1, d.identifiers), <<>>)
                /\ s1_buckets' = r.users
        /\ UNCHANGED <<bucketVars, setVars>>

incrementalDiscovery(body, time, fraction) ==
    LET swept == updateUserSets(Sets, clock)
        d == checkAuthenticationAndExtractIdentifiers(swept.s1, body)
        r == Bucket_userCanSyncAmount(B_inc, s2_buckets,
                                      d.user, Len(d.identifiers),
                                      WallClock(time, fraction))
    IN  /\ request' = Request("incremental", body)
        /\ clock' = time
        /\ frac' = fraction
        /\ s1' = swept.s1
        /\ s2_added' = swept.s2_added
        /\ s2_removed' = swept.s2_removed
        /\ UNCHANGED <<s1_buckets, lastEvent>>
        /\ IF d.error # NoError
           THEN /\ response' = makeErrorResponse(d.error)
                /\ UNCHANGED s2_buckets
           ELSE IF Len(d.identifiers) = 0
           THEN /\ response' = makeResponse(<<>>, <<>>)
                /\ UNCHANGED s2_buckets
           ELSE IF ~r.ret
           THEN /\ response' = makeErrorResponse(RATE_LIMIT_EXCEEDED)
                /\ s2_buckets' = r.users
           ELSE /\ response' = makeResponse(
                        ExpiringUserSet_containedUsers(swept.s2_added, d.identifiers),
                        ExpiringUserSet_containedUsers(swept.s2_removed, d.identifiers))
                /\ s2_buckets' = r.users
        /\ UNCHANGED <<bucketVars, setVars>>

\* Variant: the register of a user that is registered needs the token the
\* user is registered with.
registerUser_Authenticated(body, time) ==
    LET swept == updateUserSets(Sets, clock)
        data == getDataFromRequest(body)
        d == IF data.error = NoError /\ UserSet_userExists(swept.s1, data.user)
             THEN checkAuthentication(swept.s1, body)
             ELSE data
        after == IF d.error # NoError THEN swept
                 ELSE addNewUser(swept, d.user, d.auth_token, time)
    IN  /\ request' = Request("register", body)
        /\ clock' = time
        /\ frac' = Truncated(time)
        /\ s1' = after.s1
        /\ s2_added' = after.s2_added
        /\ s2_removed' = after.s2_removed
        /\ response' = IF d.error # NoError THEN makeErrorResponse(d.error)
                       ELSE makeResponse(<<>>, <<>>)
        /\ lastEvent' = IF d.error # NoError THEN lastEvent
                        ELSE Registered(lastEvent, {d.user}, time)
        /\ UNCHANGED <<s1_buckets, s2_buckets>>
        /\ UNCHANGED <<bucketVars, setVars>>

registerUser(body, time) ==
    LET swept == updateUserSets(Sets, clock)
        d == getDataFromRequest(body)
        after == IF d.error # NoError THEN swept
                 ELSE addNewUser(swept, d.user, d.auth_token, time)
    IN  /\ request' = Request("register", body)
        /\ clock' = time
        /\ frac' = Truncated(time)
        /\ s1' = after.s1
        /\ s2_added' = after.s2_added
        /\ s2_removed' = after.s2_removed
        /\ response' = IF d.error # NoError THEN makeErrorResponse(d.error)
                       ELSE makeResponse(<<>>, <<>>)
        /\ lastEvent' = IF d.error # NoError THEN lastEvent
                        ELSE Registered(lastEvent, {d.user}, time)
        /\ UNCHANGED <<s1_buckets, s2_buckets>>
        /\ UNCHANGED <<bucketVars, setVars>>

\* Variant: an unregister forgets the user's bucket entries.
deleteUser_ForgetBuckets(body, time) ==
    LET swept == updateUserSets(Sets, clock)
        d == checkAuthentication(swept.s1, body)
        after == IF d.error # NoError THEN swept
                 ELSE removeUser(swept, d.user, time)
    IN  /\ request' = Request("delete", body)
        /\ clock' = time
        /\ frac' = Truncated(time)
        /\ s1' = after.s1
        /\ s2_added' = after.s2_added
        /\ s2_removed' = after.s2_removed
        /\ response' = IF d.error # NoError THEN makeErrorResponse(d.error)
                       ELSE makeResponse(<<>>, <<>>)
        /\ lastEvent' = IF d.error # NoError THEN lastEvent
                        ELSE Unregistered(lastEvent, d.user, time)
        /\ s1_buckets' = IF d.error # NoError THEN s1_buckets
                         ELSE DictDel(s1_buckets, d.user)
        /\ s2_buckets' = IF d.error # NoError THEN s2_buckets
                         ELSE DictDel(s2_buckets, d.user)
        /\ UNCHANGED <<bucketVars, setVars>>

deleteUser(body, time) ==
    LET swept == updateUserSets(Sets, clock)
        d == checkAuthentication(swept.s1, body)
        after == IF d.error # NoError THEN swept
                 ELSE removeUser(swept, d.user, time)
    IN  /\ request' = Request("delete", body)
        /\ clock' = time
        /\ frac' = Truncated(time)
        /\ s1' = after.s1
        /\ s2_added' = after.s2_added
        /\ s2_removed' = after.s2_removed
        /\ response' = IF d.error # NoError THEN makeErrorResponse(d.error)
                       ELSE makeResponse(<<>>, <<>>)
        /\ lastEvent' = IF d.error # NoError THEN lastEvent
                        ELSE Unregistered(lastEvent, d.user, time)
        /\ UNCHANGED <<s1_buckets, s2_buckets>>
        /\ UNCHANGED <<bucketVars, setVars>>

(* The test endpoints; they are not wrapped in _catchRequestErrors, so they *)
(* run no sweep and an error of theirs is not turned into a response.       *)

resetServer ==
    /\ request' = [NoRequest EXCEPT !.endpoint = "reset"]
    /\ s1_buckets' = Bucket_clear(s1_buckets)
    /\ s2_buckets' = Bucket_clear(s2_buckets)
    /\ s1' = UserSet_clear(s1)
    /\ s2_added' = ExpiringUserSet_clear(s2_added)
    /\ s2_removed' = ExpiringUserSet_clear(s2_removed)
    /\ response' = TextResponse("Success")
    /\ lastEvent' = [u \in Identifiers |-> NoEvent]
    /\ UNCHANGED <<clock, frac>>
    /\ UNCHANGED <<bucketVars, setVars>>

TooMany == 10000000

\* urandom(16) draws 16 bytes, never the empty string.
RandomIds == Identifiers \ {""}
RandomTokens == Tokens \ {""}

\* pairs: the (user, token) drawn by each iteration of the loop; times: the
\* clock as addNewUser reads it in each iteration.
createUsers(number, pairs, times) ==
    LET after == IF number > TooMany THEN Sets ELSE addNewUsers(Sets, pairs, times)
    IN  /\ number > TooMany => pairs = <<>>
        /\ number <= TooMany => Len(pairs) = number
        /\ ClockReads(times, Len(pairs))
        /\ request' = [NoRequest EXCEPT !.endpoint = "create", !.number = number]
        /\ s1' = after.s1
        /\ s2_added' = after.s2_added
        /\ s2_removed' = after.s2_removed
        /\ response' = IF number > TooMany THEN TextResponse("Too many")
                       ELSE TextResponse("Success")
        /\ lastEvent' = RegisteredEach(lastEvent,
                                        [i \in 1..Len(pairs) |-> pairs[i][1]], times)
        /\ clock' = LastRead(times)
        /\ frac' = Truncated(LastRead(times))
        /\ UNCHANGED <<s1_buckets, s2_buckets>>
        /\ UNCHANGED <<bucketVars, setVars>>

\* tokens: the token drawn for each identifier of the body; times: the
\* clock as addNewUser reads it for each identifier.
addUsers(body, tokens, times) ==
    LET d == getDataFromRequest(body)
        pairs == [i \in 1..Len(d.identifiers) |-> <<d.identifiers[i], tokens[i]>>]
        after == IF d.error # NoError THEN Sets ELSE addNewUsers(Sets, pairs, times)
    IN  /\ Len(tokens) = Len(d.identifiers)
        /\ ClockReads(times, IF d.error # NoError THEN 0 ELSE Len(d.identifiers))
        /\ request' = Request("add", body)
        /\ s1' = after.s1
        /\ s2_added' = after.s2_added
        /\ s2_removed' = after.s2_removed
        /\ response' = IF d.error # NoError THEN TextResponse("error")
                       ELSE makeResponse(<<>>, <<>>)
        /\ lastEvent' = IF d.error # NoError THEN lastEvent
                        ELSE RegisteredEach(lastEvent, d.identifiers, times)
        /\ clock' = LastRead(times)
        /\ frac' = Truncated(LastRead(times))
        /\ UNCHANGED <<s1_buckets, s2_buckets>>
        /\ UNCHANGED <<bucketVars, setVars>>

\* Time passes between two requests; no request is being handled.
Tick ==
    /\ clock < MaxTime
    /\ clock' = clock + 1
    /\ frac' = 0
    /\ request' = NoRequest
    /\ response' = NoResponse
    /\ UNCHANGED <<s1, s2_added, s2_removed, s1_buckets, s2_buckets, lastEvent>>
    /\ UNCHANGED <<bucketVars, setVars>>

----------------------------------------------------------------------------
(* app.py served by worker threads: application.run() serves the requests   *)
(* in threads, MaxThreads of them here.  The module-level containers are    *)
(* shared by every thread and no handler takes a lock, so the handlers      *)
(* interleave between any two operations on a container and between any two *)
(* readings of the clock, and time passes while a request is handled.  A    *)
(* step of a thread is one reading of the clock or one operation on a       *)
(* container: a test `in`, a get, a del, a store, a clear, the creation of  *)
(* an iterator, one turn of the loop over it, the replacement of a dict.    *)

\* One request handled alone, as a function of the containers: st is the
\* record of the five containers, currentTime the time _updateUserSets reads,
\* time the second and fraction the milliseconds past it that the callback
\* reads.
\* The result is the containers after the request and the response.
Serve(st, endpoint, body, currentTime, time, fraction) ==
    LET swept == updateUserSets([s1 |-> st.s1, s2_added |-> st.s2_added,
                                 s2_removed |-> st.s2_removed], currentTime)
        Out(sets, b1, b2, resp) ==
            [state |-> [s1 |-> sets.s1, s2_added |-> sets.s2_added,
                        s2_removed |-> sets.s2_removed,
                        s1_buckets |-> b1, s2_buckets |-> b2],
             response |-> resp]
        Fail(error) == Out(swept, st.s1_buckets, st.s2_buckets, makeErrorResponse(error))
    IN  CASE endpoint = "register" ->
               LET d == getDataFromRequest(body)
               IN  IF d.error # NoError THEN Fail(d.error)
                   ELSE Out(addNewUser(swept, d.user, d.auth_token, time),
                            st.s1_buckets, st.s2_buckets, makeResponse(<<>>, <<>>))
          [] endpoint = "delete" ->
               LET d == checkAuthentication(swept.s1, body)
               IN  IF d.error # NoError THEN Fail(d.error)
                   ELSE Out(removeUser(swept, d.user, time),
                            st.s1_buckets, st.s2_buckets, makeResponse(<<>>, <<>>))
          [] endpoint = "full" ->
               LET d == checkAuthenticationAndExtractIdentifiers(swept.s1, body)
                   r == Bucket_userCanSyncAmount(B_full, st.s1_buckets,
                                                 d.user, Len(d.identifiers),
                                                 WallClock(time, fraction))
               IN  IF d.error # NoError THEN Fail(d.error)
                   ELSE IF Len(d.identifiers) = 0
                   THEN Out(swept, st.s1_buckets, st.s2_buckets, makeResponse(<<>>, <<>>))
                   ELSE IF ~r.ret THEN Fail(RATE_LIMIT_EXCEEDED)
                   ELSE Out(swept, r.users, st.s2_buckets,
                            makeResponse(UserSet_containedUsers(swept.s1, d.identifiers),
                                         <<>>))
          [] endpoint = "incremental" ->
               LET d == checkAuthenticationAndExtractIdentifiers(swept.s1, body)
                   r == Bucket_userCanSyncAmount(B_inc, st.s2_buckets,
                                                 d.user, Len(d.identifiers),
                                                 WallClock(time, fraction))
               IN  IF d.error # NoError THEN Fail(d.error)
                   ELSE IF Len(d.identifiers) = 0
                   THEN Out(swept, st.s1_buckets, st.s2_buckets, makeResponse(<<>>, <<>>))
                   ELSE IF ~r.ret THEN Fail(RATE_LIMIT_EXCEEDED)
                   ELSE Out(swept, st.s1_buckets, r.users,
                            makeResponse(
                              ExpiringUserSet_containedUsers(swept.s2_added, d.identifiers),
                              ExpiringUserSet_containedUsers(swept.s2_removed, d.identifiers)))

\* The worker threads.  app.py line 420 starts the server of Flask, which
\* hands every request to a thread of its own; how many run at once is the
\* choice of the server the application is deployed on, not of src.  The
\* runs explored have up to MaxThreads of them, and include those in which
\* no two requests overlap.
Threads == 1..MaxThreads

IsSyncEndpoint(endpoint) == endpoint \in {"full", "incremental"}

\* The endpoints that run through _catchRequestErrors.
IsWrapped(endpoint) == endpoint \in {"register", "delete", "full", "incremental"}

(* The dicts that update iterates.  A dict of CPython keeps its entries in  *)
(* an array, in the order the keys were inserted: a store on a key that is  *)
(* in the dict replaces the value where the entry is, a store on a new key  *)
(* appends an entry, a del leaves the entry behind with nothing in it, and  *)
(* clear drops the array.  An array of n slots has room for 2n/3 entries;   *)
(* a store on a new key that finds no room left moves the entries that hold *)
(* a key, in their order, to a new array, whose size follows from the       *)
(* number of keys.  An iterator walks the array by position.  The layout of *)
(* a dict is its array and the room left in it; the values are in the dict  *)
(* of the set, the function from keys to values.                            *)

\* dict(): no array yet.
NewLayout == [entries |-> <<>>, usable |-> 0]

\* self._users[k] = v, users being the dict before the store.  The new
\* array has the power of two above (minsize | 8) - 1 as its number of
\* slots, minsize being three times the number of keys.
Layout_setitem(lay, users, k) ==
    LET RECURSIVE PowerAbove(_, _)
        PowerAbove(size, x) == IF size > x THEN size ELSE PowerAbove(2 * size, x)
        KeysSize(minsize) ==
            PowerAbove(8, (IF (minsize \div 8) % 2 = 0 THEN minsize + 8
                           ELSE minsize) - 1)
        used == Cardinality(DOMAIN users)
        room == IF lay.usable <= 0
                THEN [entries |-> SelectSeq(lay.entries, LAMBDA e : e.live),
                      usable |-> (2 * KeysSize(3 * used)) \div 3 - used]
                ELSE lay
    IN  IF k \in DOMAIN users THEN lay
        ELSE [entries |-> Append(room.entries, [key |-> k, live |-> TRUE]),
              usable |-> room.usable - 1]

\* del self._users[k]
Layout_delitem(lay, k) ==
    [lay EXCEPT !.entries =
        [i \in 1..Len(lay.entries) |->
            IF lay.entries[i].live /\ lay.entries[i].key = k
            THEN [key |-> "", live |-> FALSE] ELSE lay.entries[i]]]

\* self._users.clear()
Layout_clear(lay) == NewLayout

\* filtered[k] = v in update
Dict_setitem(d, k, v) ==
    LET lay == Layout_setitem([entries |-> d.entries, usable |-> d.usable],
                              d.users, k)
    IN  [users |-> DictSet(d.users, k, v), entries |-> lay.entries,
         usable |-> lay.usable]

\* The iterator of ExpiringUserSet.update while a thread sweeps: the size
\* of the dict when the iterator was created, the number of entries it has
\* still to give, the position in the array it looks at next, whether the
\* dict has been replaced since (and what it held then), and filtered, the
\* copy the loop has built so far.
NoIterator == [iterSize |-> -1, len |-> 0, pos |-> 1, detached |-> FALSE,
               view |-> [users |-> EmptyDict, entries |-> <<>>],
               filtered |-> [users |-> EmptyDict, entries |-> <<>>,
                             usable |-> 0]]

\* The local variables of a handler: the request, the user and token that
\* addNewUser or removeUser is called with, the readings of the clock
\* (currentTime in _updateUserSets, time for _time() as an argument of
\* addUser, now for time() as the argument of userCanSyncAmount), the
\* timestamp read from the bucket, the position of a loop over the
\* identifiers or over range(number), the list a containedUsers has built
\* so far, addedUsers, and the response.
NoThread == [pc |-> "idle", endpoint |-> "none", body |-> EmptyBody,
             number |-> 0, user |-> "", auth_token |-> "", currentTime |-> 0,
             time |-> 0, now |-> None, timestamp |-> None, next |-> 1,
             found |-> <<>>, added |-> <<>>, response |-> NoResponse,
             iter |-> NoIterator]

Containers == [s1 |-> s1, s2_added |-> s2_added, s2_removed |-> s2_removed,
               s1_buckets |-> s1_buckets, s2_buckets |-> s2_buckets]

\* The requests of the concurrent clients: each identifier registers and
\* unregisters with token "x", user "a" syncs lists of one or two contacts
\* with token "x", and the test
\* endpoints are called: /reset, /test/create/<number> and /test/add/many
\* with a list of one identifier or with a body that does not parse.
ThreadRequests ==
    {[endpoint |-> e, body |-> Message(u, "x", <<>>), number |-> 0] :
        e \in {"register", "delete"}, u \in Identifiers}
    \cup {[endpoint |-> e, body |-> Message("a", "x", ids), number |-> 0] :
             e \in {"full", "incremental"}, ids \in {<<"a">>, <<"a", "a">>}}
    \cup {[endpoint |-> "reset", body |-> EmptyBody, number |-> 0]}
    \cup {[endpoint |-> "create", body |-> EmptyBody, number |-> n] :
             n \in (0..MaxCreate) \cup {TooMany + 1}}
    \cup {[endpoint |-> "add", body |-> b, number |-> 0] :
             b \in {InvalidBody, Message("", "", <<"a">>)}}

Quiescent == \A t \in Threads : threads[t].pc \in {"idle", "done"}

\* History: base is the containers and the clock as the first of the
\* requests that overlap found them, the number of requests taken since
\* then while that is at most two, and the number of requests taken in
\* all.  Once a thread has taken a third request before the others were
\* done, base is Unpaired.
NoPair == [s1 |-> EmptyDict, s2_added |-> EmptyDict, s2_removed |-> EmptyDict,
           s1_buckets |-> EmptyDict, s2_buckets |-> EmptyDict,
           clock |-> 0, frac |-> 0, requests |-> 0, served |-> 0]

Found(n) == [s1 |-> s1, s2_added |-> s2_added, s2_removed |-> s2_removed,
             s1_buckets |-> s1_buckets, s2_buckets |-> s2_buckets,
             clock |-> clock, frac |-> frac,
             requests |-> n, served |-> base.served + 1]

Unpaired == [NoPair EXCEPT !.requests = 3, !.served = base.served + 1]

\* The thread moves on to pc.
Goto(t, pc) == threads' = [threads EXCEPT ![t].pc = pc]

\* The thread returns its response; its local variables are gone.
Return(t, resp) ==
    threads' = [threads EXCEPT
                   ![t] = [NoThread EXCEPT !.pc = "done",
                                           !.endpoint = threads[t].endpoint,
                                           !.body = threads[t].body,
                                           !.number = threads[t].number,
                                           !.response = resp]]

\* An exception that is no ICDError leaves the handler: the request ends
\* with a server error.
Raise(t) == Return(t, TextResponse("error"))

\* What a step of a thread leaves alone besides the containers.
ThreadFrame == UNCHANGED <<clock, frac, request, response, lastEvent, roundTrip,
                           base>>
                 /\ UNCHANGED <<bucketVars, setVars>>

\* The first step of the view function of an endpoint.
Entrance(endpoint) ==
    CASE IsWrapped(endpoint) -> "sweep_time"
      [] endpoint = "reset" -> "clear_s1_buckets"
      [] endpoint = "create" -> "create"
      [] OTHER -> "add_many"

\* A thread that handles no request takes the next one, whatever the
\* other threads are doing; MaxRequests requests are taken in all.
Arrive(t, r) ==
    LET taken == [NoThread EXCEPT !.pc = Entrance(r.endpoint),
                                  !.endpoint = r.endpoint,
                                  !.body = r.body,
                                  !.number = r.number]
    IN  /\ threads[t].pc \in {"idle", "done"}
        /\ base.served < MaxRequests
        /\ IF Quiescent
           THEN /\ threads' = [o \in Threads |-> IF o = t THEN taken ELSE NoThread]
                /\ base' = Found(1)
           ELSE /\ threads' = [threads EXCEPT ![t] = taken]
                /\ base' = IF threads[t].pc = "idle" /\ base.requests = 1
                           THEN [base EXCEPT !.requests = 2, !.served = @ + 1]
                           ELSE Unpaired
        /\ UNCHANGED <<s1, s2_added, s2_removed, s1_buckets, s2_buckets, clock,
                       frac, request, response, lastEvent, roundTrip, layout>>
        /\ UNCHANGED <<bucketVars, setVars>>

\* _updateUserSets: currentTime = _time()
SweepTime(t) ==
    /\ threads[t].pc = "sweep_time"
    /\ threads' = [threads EXCEPT ![t].pc = "added_iter",
                                  ![t].currentTime = clock]
    /\ UNCHANGED <<s1, s2_added, s2_removed, s1_buckets, s2_buckets, layout>>
    /\ ThreadFrame

(* ExpiringUserSet.update step by step.  update creates an iterator over    *)
(* the dict (userSet.py line 229), runs the loop that copies the entries to *)
(* keep into a new dict (lines 229-231), and then replaces the dict by the  *)
(* copy (line 233; the count of line 232 is not used by app.py).  A turn of *)
(* the loop is a step: the interpreter may hand over to another thread at   *)
(* the jump back that ends every turn, so the writes of other threads fall  *)
(* between two turns.  At every turn, the one that ends the loop included,  *)
(* the iterator raises RuntimeError when it finds the size of the dict      *)
(* changed since it was created, and when it finds more entries than the    *)
(* dict had then; the error is not an ICDError and is raised outside the    *)
(* try of _catchRequestErrors, so the request ends with a server error.     *)
(* Another thread's replacement of the dict leaves the iterator on the old  *)
(* dict.  Where the interpreter hands over depends on its version: after a  *)
(* call and at a backward jump in CPython 3.11, between almost any two      *)
(* instructions in the interpreters before 3.10.  The steps here are the    *)
(* accesses to the shared dicts and to the clock, one by one, which covers  *)
(* both: the creation of the iterator and its first turn are two steps, and *)
(* so are the test and the del of removeUser.                               *)

\* The iterator of thread t is created on a dict.
IterBegin(t, users, pc) ==
    threads' = [threads EXCEPT ![t].pc = pc,
                               ![t].iter = [NoIterator EXCEPT
                                   !.iterSize = Cardinality(DOMAIN users),
                                   !.len = Cardinality(DOMAIN users)]]

\* One turn of the loop of thread t, on the dict its iterator is on: the
\* dict of the set, or the dict the set had when another thread replaced
\* it.  The iterator gives the next entry that holds a key, and the entry is
\* copied when its time is later than currentTime; with no entry left the
\* loop ends and the thread moves on to pc.
IterLoop(t, users, lay, pc) ==
    LET it == threads[t].iter
        content == IF it.detached THEN it.view
                   ELSE [users |-> users, entries |-> lay.entries]
        rest == {i \in it.pos..Len(content.entries) : content.entries[i].live}
    IN  IF Cardinality(DOMAIN content.users) # it.iterSize THEN Raise(t)
        ELSE IF rest = {}
        THEN threads' = [threads EXCEPT
                 ![t].pc = pc,
                 ![t].iter = [NoIterator EXCEPT !.filtered = it.filtered]]
        ELSE IF it.len = 0 THEN Raise(t)
        ELSE LET i == CHOOSE first \in rest : \A other \in rest : first <= other
                 k == content.entries[i].key
                 v == content.users[k]
             IN  threads' = [threads EXCEPT
                     ![t].iter = [it EXCEPT
                         !.pos = i + 1,
                         !.len = @ - 1,
                         !.filtered = IF v > threads[t].currentTime
                                      THEN Dict_setitem(@, k, v) ELSE @]]

\* Thread t replaces the dict of a set, which held users laid out as lay;
\* the iterators the other threads have on that dict, those of the threads
\* at pc loop, stay on it.
IterReplace(t, users, lay, loop, pc) ==
    threads' = [o \in Threads |->
                  IF o = t
                  THEN [threads[o] EXCEPT !.pc = pc, !.iter = NoIterator]
                  ELSE IF threads[o].pc = loop /\ ~threads[o].iter.detached
                  THEN [threads[o] EXCEPT
                           !.iter.detached = TRUE,
                           !.iter.view = [users |-> users,
                                          entries |-> lay.entries]]
                  ELSE threads[o]]

\* s2_added.update(currentTime) up to the creation of the iterator
SweepAddedBegin(t) ==
    /\ threads[t].pc = "added_iter"
    /\ IterBegin(t, s2_added, "added_loop")
    /\ UNCHANGED <<s1, s2_added, s2_removed, s1_buckets, s2_buckets, layout>>
    /\ ThreadFrame

\* s2_added.update: one turn of the loop
SweepAddedLoop(t) ==
    /\ threads[t].pc = "added_loop"
    /\ IterLoop(t, s2_added, layout.s2_added, "added_replace")
    /\ UNCHANGED <<s1, s2_added, s2_removed, s1_buckets, s2_buckets, layout>>
    /\ ThreadFrame

\* s2_added.update: self._users = filtered
SweepAddedReplace(t) ==
    LET filtered == threads[t].iter.filtered
    IN  /\ threads[t].pc = "added_replace"
        /\ s2_added' = filtered.users
        /\ layout' = [layout EXCEPT
                         !.s2_added = [entries |-> filtered.entries,
                                       usable |-> filtered.usable]]
        /\ IterReplace(t, s2_added, layout.s2_added, "added_loop", "removed_iter")
        /\ UNCHANGED <<s1, s2_removed, s1_buckets, s2_buckets>>
        /\ ThreadFrame

\* s2_removed.update(currentTime) up to the creation of the iterator
SweepRemovedBegin(t) ==
    /\ threads[t].pc = "removed_iter"
    /\ IterBegin(t, s2_removed, "removed_loop")
    /\ UNCHANGED <<s1, s2_added, s2_removed, s1_buckets, s2_buckets, layout>>
    /\ ThreadFrame

\* s2_removed.update: one turn of the loop
SweepRemovedLoop(t) ==
    /\ threads[t].pc = "removed_loop"
    /\ IterLoop(t, s2_removed, layout.s2_removed, "removed_replace")
    /\ UNCHANGED <<s1, s2_added, s2_removed, s1_buckets, s2_buckets, layout>>
    /\ ThreadFrame

\* s2_removed.update: self._users = filtered; then the callback is called
SweepRemovedReplace(t) ==
    LET filtered == threads[t].iter.filtered
    IN  /\ threads[t].pc = "removed_replace"
        /\ s2_removed' = filtered.users
        /\ layout' = [layout EXCEPT
                         !.s2_removed = [entries |-> filtered.entries,
                                         usable |-> filtered.usable]]
        /\ IterReplace(t, s2_removed, layout.s2_removed, "removed_loop",
                       "callback")
        /\ UNCHANGED <<s1, s2_added, s1_buckets, s2_buckets>>
        /\ ThreadFrame

\* _registerUserWithErrors: _getDataFromRequest(), the call of addNewUser
RegisterGetData(t) ==
    LET d == getDataFromRequest(threads[t].body)
    IN  /\ threads[t].pc = "callback"
        /\ threads[t].endpoint = "register"
        /\ IF d.error # NoError THEN Return(t, makeErrorResponse(d.error))
           ELSE threads' = [threads EXCEPT ![t].pc = "add_s1",
                                           ![t].user = d.user,
                                           ![t].auth_token = d.auth_token]
        /\ UNCHANGED <<s1, s2_added, s2_removed, s1_buckets, s2_buckets, layout>>
        /\ ThreadFrame

\* addNewUser: s1.addUser(user, auth_token)
AddToS1(t) ==
    /\ threads[t].pc = "add_s1"
    /\ s1' = UserSet_addUser(s1, threads[t].user, threads[t].auth_token)
    /\ Goto(t, "add_time")
    /\ UNCHANGED <<s2_added, s2_removed, s1_buckets, s2_buckets, layout>>
    /\ ThreadFrame

\* addNewUser: _time(), the argument of s2_added.addUser
AddTime(t) ==
    /\ threads[t].pc = "add_time"
    /\ threads' = [threads EXCEPT ![t].pc = "add_added", ![t].time = clock]
    /\ UNCHANGED <<s1, s2_added, s2_removed, s1_buckets, s2_buckets, layout>>
    /\ ThreadFrame

\* addNewUser: s2_added.addUser(user, time)
AddToAdded(t) ==
    /\ threads[t].pc = "add_added"
    /\ s2_added' = ExpiringUserSet_addUser(s2_added, s2_delta, threads[t].user,
                                           threads[t].time)
    /\ layout' = [layout EXCEPT
                     !.s2_added = Layout_setitem(@, s2_added, threads[t].user)]
    /\ Goto(t, "drop_removed")
    /\ UNCHANGED <<s1, s2_removed, s1_buckets, s2_buckets>>
    /\ ThreadFrame

\* addNewUser has returned: _registerUserWithErrors returns its response,
\* createUsers and addUsers go on with their loops.
Added(t) ==
    IF threads[t].endpoint = "register" THEN Return(t, makeResponse(<<>>, <<>>))
    ELSE threads' = [threads EXCEPT
                        ![t].pc = IF threads[t].endpoint = "create"
                                  THEN "create" ELSE "add_many",
                        ![t].user = "", ![t].auth_token = "", ![t].time = 0]

\* addNewUser: s2_removed.removeUser(user), the test `user not in self._users`
DropFromRemovedTest(t) ==
    /\ threads[t].pc = "drop_removed"
    /\ IF threads[t].user \in DOMAIN s2_removed
       THEN Goto(t, "drop_removed_del")
       ELSE Added(t)
    /\ UNCHANGED <<s1, s2_added, s2_removed, s1_buckets, s2_buckets, layout>>
    /\ ThreadFrame

\* addNewUser: s2_removed.removeUser(user), del self._users[user]; KeyError
\* when the user is not in the dict any more
DropFromRemoved(t) ==
    /\ threads[t].pc = "drop_removed_del"
    /\ IF threads[t].user \in DOMAIN s2_removed
       THEN /\ s2_removed' = ExpiringUserSet_removeUser(s2_removed, threads[t].user)
            /\ layout' = [layout EXCEPT
                             !.s2_removed = Layout_delitem(@, threads[t].user)]
            /\ Added(t)
       ELSE /\ Raise(t)
            /\ UNCHANGED <<s2_removed, layout>>
    /\ UNCHANGED <<s1, s2_added, s1_buckets, s2_buckets>>
    /\ ThreadFrame

\* _deleteUserWithErrors: _checkAuthentication(), the call of removeUser
DeleteAuthenticate(t) ==
    LET d == checkAuthentication(s1, threads[t].body)
    IN  /\ threads[t].pc = "callback"
        /\ threads[t].endpoint = "delete"
        /\ IF d.error # NoError THEN Return(t, makeErrorResponse(d.error))
           ELSE threads' = [threads EXCEPT ![t].pc = "remove_s1",
                                           ![t].user = d.user]
        /\ UNCHANGED <<s1, s2_added, s2_removed, s1_buckets, s2_buckets, layout>>
        /\ ThreadFrame

\* removeUser: s1.removeUser(user), the test `user not in self._users`
RemoveFromS1Test(t) ==
    /\ threads[t].pc = "remove_s1"
    /\ Goto(t, IF threads[t].user \in DOMAIN s1 THEN "remove_s1_del"
               ELSE "drop_added")
    /\ UNCHANGED <<s1, s2_added, s2_removed, s1_buckets, s2_buckets, layout>>
    /\ ThreadFrame

\* removeUser: s1.removeUser(user), del self._users[user]
RemoveFromS1(t) ==
    /\ threads[t].pc = "remove_s1_del"
    /\ IF threads[t].user \in DOMAIN s1
       THEN /\ s1' = UserSet_removeUser(s1, threads[t].user)
            /\ Goto(t, "drop_added")
       ELSE /\ Raise(t)
            /\ UNCHANGED s1
    /\ UNCHANGED <<s2_added, s2_removed, s1_buckets, s2_buckets, layout>>
    /\ ThreadFrame

\* removeUser: s2_added.removeUser(user), the test `user not in self._users`
DropFromAddedTest(t) ==
    /\ threads[t].pc = "drop_added"
    /\ Goto(t, IF threads[t].user \in DOMAIN s2_added THEN "drop_added_del"
               ELSE "remove_time")
    /\ UNCHANGED <<s1, s2_added, s2_removed, s1_buckets, s2_buckets, layout>>
    /\ ThreadFrame

\* removeUser: s2_added.removeUser(user), del self._users[user]
DropFromAdded(t) ==
    /\ threads[t].pc = "drop_added_del"
    /\ IF threads[t].user \in DOMAIN s2_added
       THEN /\ s2_added' = ExpiringUserSet_removeUser(s2_added, threads[t].user)
            /\ layout' = [layout EXCEPT
                             !.s2_added = Layout_delitem(@, threads[t].user)]
            /\ Goto(t, "remove_time")
       ELSE /\ Raise(t)
            /\ UNCHANGED <<s2_added, layout>>
    /\ UNCHANGED <<s1, s2_removed, s1_buckets, s2_buckets>>
    /\ ThreadFrame

\* removeUser: _time(), the argument of s2_removed.addUser
RemoveTime(t) ==
    /\ threads[t].pc = "remove_time"
    /\ threads' = [threads EXCEPT ![t].pc = "add_removed", ![t].time = clock]
    /\ UNCHANGED <<s1, s2_added, s2_removed, s1_buckets, s2_buckets, layout>>
    /\ ThreadFrame

\* removeUser: s2_removed.addUser(user, time), then _makeResponse()
AddToRemoved(t) ==
    /\ threads[t].pc = "add_removed"
    /\ s2_removed' = ExpiringUserSet_addUser(s2_removed, s2_delta,
                                             threads[t].user, threads[t].time)
    /\ layout' = [layout EXCEPT
                     !.s2_removed = Layout_setitem(@, s2_removed, threads[t].user)]
    /\ Return(t, makeResponse(<<>>, <<>>))
    /\ UNCHANGED <<s1, s2_added, s1_buckets, s2_buckets>>
    /\ ThreadFrame

\* _fullDiscoveryWithErrors / _incrementalDiscoveryWithErrors:
\* _checkAuthenticationAndExtractIdentifiers() and the test for an empty list
SyncAuthenticate(t) ==
    LET d == checkAuthenticationAndExtractIdentifiers(s1, threads[t].body)
    IN  /\ threads[t].pc = "callback"
        /\ IsSyncEndpoint(threads[t].endpoint)
        /\ IF d.error # NoError THEN Return(t, makeErrorResponse(d.error))
           ELSE IF Len(d.identifiers) = 0 THEN Return(t, makeResponse(<<>>, <<>>))
           ELSE threads' = [threads EXCEPT ![t].pc = "bucket_time",
                                           ![t].user = d.user]
        /\ UNCHANGED <<s1, s2_added, s2_removed, s1_buckets, s2_buckets, layout>>
        /\ ThreadFrame

\* time(), the argument of userCanSyncAmount
BucketTime(t) ==
    /\ threads[t].pc = "bucket_time"
    /\ threads' = [threads EXCEPT ![t].pc = "bucket_read",
                                  ![t].now = WallClock(clock, frac)]
    /\ UNCHANGED <<s1, s2_added, s2_removed, s1_buckets, s2_buckets, layout>>
    /\ ThreadFrame

\* Bucket.userCanSyncAmount up to timestamp = self._users.get(user)
BucketRead(t) ==
    LET th == threads[t]
        users == IF th.endpoint = "full" THEN s1_buckets ELSE s2_buckets
    IN  /\ th.pc = "bucket_read"
        /\ IF Len(th.body.identifiers) > max_contacts
           THEN Return(t, makeErrorResponse(RATE_LIMIT_EXCEEDED))
           ELSE threads' = [threads EXCEPT
                               ![t].pc = "bucket_write",
                               ![t].timestamp = Bucket_get(users, th.user)]
        /\ UNCHANGED <<s1, s2_added, s2_removed, s1_buckets, s2_buckets, layout>>
        /\ ThreadFrame

\* Bucket.userCanSyncAmount from the timestamp read: the decision, with the
\* time the caller passed, and the write of the user's entry when the sync
\* is allowed.
BucketWrite(t) ==
    LET th == threads[t]
        full == th.endpoint = "full"
        seen == IF th.timestamp = None THEN EmptyDict
                ELSE DictSet(EmptyDict, th.user, th.timestamp)
        r == Bucket_userCanSyncAmount(IF full THEN B_full ELSE B_inc, seen,
                                      th.user, Len(th.body.identifiers), th.now)
    IN  /\ th.pc = "bucket_write"
        /\ IF ~r.ret
           THEN /\ Return(t, makeErrorResponse(RATE_LIMIT_EXCEEDED))
                /\ UNCHANGED <<s1_buckets, s2_buckets>>
           ELSE /\ threads' = [threads EXCEPT
                                   ![t].pc = IF full THEN "intersect"
                                             ELSE "intersect_added",
                                   ![t].user = "",
                                   ![t].now = None,
                                   ![t].timestamp = None]
                /\ IF full
                   THEN /\ s1_buckets' = DictSet(s1_buckets, th.user, r.users[th.user])
                        /\ UNCHANGED s2_buckets
                   ELSE /\ s2_buckets' = DictSet(s2_buckets, th.user, r.users[th.user])
                        /\ UNCHANGED s1_buckets
        /\ UNCHANGED <<s1, s2_added, s2_removed, layout>>
        /\ ThreadFrame

\* _fullDiscoveryWithErrors: s1.containedUsers(identifiers), one test
\* `x in self._users` of the list comprehension; after the last one,
\* _makeResponse(found)
IntersectS1(t) ==
    LET th == threads[t]
        found == th.found
                   \o UserSet_containedUsers(s1, <<th.body.identifiers[th.next]>>)
    IN  /\ th.pc = "intersect"
        /\ IF th.next = Len(th.body.identifiers)
           THEN Return(t, makeResponse(found, <<>>))
           ELSE threads' = [threads EXCEPT ![t].next = th.next + 1,
                                           ![t].found = found]
        /\ UNCHANGED <<s1, s2_added, s2_removed, s1_buckets, s2_buckets, layout>>
        /\ ThreadFrame

\* _incrementalDiscoveryWithErrors: s2_added.containedUsers(identifiers), one
\* test `x in self._users`
IntersectAdded(t) ==
    LET th == threads[t]
        found == th.found
                   \o ExpiringUserSet_containedUsers(
                          s2_added, <<th.body.identifiers[th.next]>>)
    IN  /\ th.pc = "intersect_added"
        /\ IF th.next = Len(th.body.identifiers)
           THEN threads' = [threads EXCEPT ![t].pc = "intersect_removed",
                                           ![t].next = 1,
                                           ![t].found = <<>>,
                                           ![t].added = found]
           ELSE threads' = [threads EXCEPT ![t].next = th.next + 1,
                                           ![t].found = found]
        /\ UNCHANGED <<s1, s2_added, s2_removed, s1_buckets, s2_buckets, layout>>
        /\ ThreadFrame

\* _incrementalDiscoveryWithErrors: s2_removed.containedUsers(identifiers),
\* one test `x in self._users`; after the last one,
\* _makeResponse(addedUsers, removedUsers)
IntersectRemoved(t) ==
    LET th == threads[t]
        found == th.found
                   \o ExpiringUserSet_containedUsers(
                          s2_removed, <<th.body.identifiers[th.next]>>)
    IN  /\ th.pc = "intersect_removed"
        /\ IF th.next = Len(th.body.identifiers)
           THEN Return(t, makeResponse(th.added, found))
           ELSE threads' = [threads EXCEPT ![t].next = th.next + 1,
                                           ![t].found = found]
        /\ UNCHANGED <<s1, s2_added, s2_removed, s1_buckets, s2_buckets, layout>>
        /\ ThreadFrame

\* resetServer: s1_buckets.clear()
ClearS1Buckets(t) ==
    /\ threads[t].pc = "clear_s1_buckets"
    /\ s1_buckets' = Bucket_clear(s1_buckets)
    /\ Goto(t, "clear_s2_buckets")
    /\ UNCHANGED <<s1, s2_added, s2_removed, s2_buckets, layout>>
    /\ ThreadFrame

\* resetServer: s2_buckets.clear()
ClearS2Buckets(t) ==
    /\ threads[t].pc = "clear_s2_buckets"
    /\ s2_buckets' = Bucket_clear(s2_buckets)
    /\ Goto(t, "clear_s1")
    /\ UNCHANGED <<s1, s2_added, s2_removed, s1_buckets, layout>>
    /\ ThreadFrame

\* resetServer: s1.clear()
ClearS1(t) ==
    /\ threads[t].pc = "clear_s1"
    /\ s1' = UserSet_clear(s1)
    /\ Goto(t, "clear_added")
    /\ UNCHANGED <<s2_added, s2_removed, s1_buckets, s2_buckets, layout>>
    /\ ThreadFrame

\* resetServer: s2_added.clear()
ClearAdded(t) ==
    /\ threads[t].pc = "clear_added"
    /\ s2_added' = ExpiringUserSet_clear(s2_added)
    /\ layout' = [layout EXCEPT !.s2_added = Layout_clear(@)]
    /\ Goto(t, "clear_removed")
    /\ UNCHANGED <<s1, s2_removed, s1_buckets, s2_buckets>>
    /\ ThreadFrame

\* resetServer: s2_removed.clear(), return "Success"
ClearRemoved(t) ==
    /\ threads[t].pc = "clear_removed"
    /\ s2_removed' = ExpiringUserSet_clear(s2_removed)
    /\ layout' = [layout EXCEPT !.s2_removed = Layout_clear(@)]
    /\ Return(t, TextResponse("Success"))
    /\ UNCHANGED <<s1, s2_added, s1_buckets, s2_buckets>>
    /\ ThreadFrame

\* createUsers: the test of number and one turn of the loop up to the call
\* of addNewUser, with the user and the token drawn
CreateNext(t) ==
    LET th == threads[t]
    IN  /\ th.pc = "create"
        /\ IF th.number > TooMany THEN Return(t, TextResponse("Too many"))
           ELSE IF th.next > th.number THEN Return(t, TextResponse("Success"))
           ELSE \E user \in RandomIds, token \in RandomTokens :
                   threads' = [threads EXCEPT ![t].pc = "add_s1",
                                              ![t].user = user,
                                              ![t].auth_token = token,
                                              ![t].next = th.next + 1]
        /\ UNCHANGED <<s1, s2_added, s2_removed, s1_buckets, s2_buckets, layout>>
        /\ ThreadFrame

\* addUsers: _getDataFromRequest(), whose error nothing catches, and one
\* turn of the loop up to the call of addNewUser, with the token drawn
AddManyNext(t) ==
    LET th == threads[t]
        d == getDataFromRequest(th.body)
    IN  /\ th.pc = "add_many"
        /\ IF d.error # NoError THEN Raise(t)
           ELSE IF th.next > Len(d.identifiers)
           THEN Return(t, makeResponse(<<>>, <<>>))
           ELSE \E token \in RandomTokens :
                   threads' = [threads EXCEPT ![t].pc = "add_s1",
                                              ![t].user = d.identifiers[th.next],
                                              ![t].auth_token = token,
                                              ![t].next = th.next + 1]
        /\ UNCHANGED <<s1, s2_added, s2_removed, s1_buckets, s2_buckets, layout>>
        /\ ThreadFrame

\* Time passes, whatever the threads are doing: the wall clock moves on to
\* the next whole second (ThreadsTick) or to a later fraction of the second
\* (ThreadsFraction), up to second MaxThreadTime sharp.
ThreadsTick ==
    /\ clock < MaxThreadTime
    /\ clock' = clock + 1
    /\ frac' = 0
    /\ UNCHANGED <<s1, s2_added, s2_removed, s1_buckets, s2_buckets, request,
                   response, lastEvent, roundTrip, threads, base, layout>>
    /\ UNCHANGED <<bucketVars, setVars>>

ThreadsFraction ==
    /\ clock < MaxThreadTime
    /\ frac' \in {f \in Fractions : f > frac}
    /\ UNCHANGED <<s1, s2_added, s2_removed, s1_buckets, s2_buckets, clock,
                   request, response, lastEvent, roundTrip, threads, base,
                   layout>>
    /\ UNCHANGED <<bucketVars, setVars>>

NextThreads ==
    \/ \E t \in Threads, r \in ThreadRequests : Arrive(t, r)
    \/ \E t \in Threads : SweepTime(t)
    \/ \E t \in Threads : SweepAddedBegin(t)
    \/ \E t \in Threads : SweepAddedLoop(t)
    \/ \E t \in Threads : SweepAddedReplace(t)
    \/ \E t \in Threads : SweepRemovedBegin(t)
    \/ \E t \in Threads : SweepRemovedLoop(t)
    \/ \E t \in Threads : SweepRemovedReplace(t)
    \/ \E t \in Threads : RegisterGetData(t)
    \/ \E t \in Threads : AddToS1(t)
    \/ \E t \in Threads : AddTime(t)
    \/ \E t \in Threads : AddToAdded(t)
    \/ \E t \in Threads : DropFromRemovedTest(t)
    \/ \E t \in Threads : DropFromRemoved(t)
    \/ \E t \in Threads : DeleteAuthenticate(t)
    \/ \E t \in Threads : RemoveFromS1Test(t)
    \/ \E t \in Threads : RemoveFromS1(t)
    \/ \E t \in Threads : DropFromAddedTest(t)
    \/ \E t \in Threads : DropFromAdded(t)
    \/ \E t \in Threads : RemoveTime(t)
    \/ \E t \in Threads : AddToRemoved(t)
    \/ \E t \in Threads : SyncAuthenticate(t)
    \/ \E t \in Threads : BucketTime(t)
    \/ \E t \in Threads : BucketRead(t)
    \/ \E t \in Threads : BucketWrite(t)
    \/ \E t \in Threads : IntersectS1(t)
    \/ \E t \in Threads : IntersectAdded(t)
    \/ \E t \in Threads : IntersectRemoved(t)
    \/ \E t \in Threads : ClearS1Buckets(t)
    \/ \E t \in Threads : ClearS2Buckets(t)
    \/ \E t \in Threads : ClearS1(t)
    \/ \E t \in Threads : ClearAdded(t)
    \/ \E t \in Threads : ClearRemoved(t)
    \/ \E t \in Threads : CreateNext(t)
    \/ \E t \in Threads : AddManyNext(t)
    \/ ThreadsTick
    \/ ThreadsFraction

\* History: roundTrip.stage is "registered" right after register(user,
\* auth_token), s1 being S1 as it was before that request, and "unregistered"
\* right after the unregister(user, auth_token) that follows it directly.
NoRound == [stage |-> "none", user |-> "", auth_token |-> "", s1 |-> EmptyDict]

TrackRound ==
    roundTrip' =
        IF request'.endpoint = "register" /\ request'.kind = "message"
        THEN [stage |-> "registered", user |-> request'.user,
              auth_token |-> request'.auth_token, s1 |-> s1]
        ELSE IF /\ request'.endpoint = "delete"
                /\ request'.kind = "message"
                /\ response'.result = SUCCESS
                /\ roundTrip.stage = "registered"
                /\ request'.user = roundTrip.user
                /\ request'.auth_token = roundTrip.auth_token
        THEN [roundTrip EXCEPT !.stage = "unregistered"]
        ELSE NoRound

(* Each specification below is the service driven by one set of clients.   *)

\* The sync requests of user "a" with token "x" that carry a list a sync may
\* carry, of up to max_contacts identifiers, and the body that does not parse.
DirBodies ==
    {InvalidBody} \cup {Message("a", "x", ids) : ids \in SeqsUpTo(Identifiers, max_contacts)}

\* One client, "a", syncs lists of up to max_contacts identifiers with token
\* "x" against S1 while every identifier registers and unregisters with
\* token "x".
NextFull ==
    \/ \E body \in DirBodies, time \in Times :
          \E fraction \in FractionsFrom(time) :
             fullDiscovery(body, time, fraction) /\ UNCHANGED <<roundTrip, concVars>>
    \/ \E body \in UserBodies(Identifiers, {"x"}), time \in Times :
          registerUser(body, time) /\ UNCHANGED <<roundTrip, concVars>>
    \/ \E body \in UserBodies(Identifiers, {"x"}), time \in Times :
          deleteUser(body, time) /\ UNCHANGED <<roundTrip, concVars>>
    \/ Tick /\ UNCHANGED <<roundTrip, concVars>>

\* One client, "a", syncs lists of up to max_contacts identifiers with token
\* "x" against the delta sets while every identifier registers and
\* unregisters with every token.
NextInc ==
    \/ \E body \in DirBodies, time \in Times :
          \E fraction \in FractionsFrom(time) :
             incrementalDiscovery(body, time, fraction) /\ UNCHANGED <<roundTrip, concVars>>
    \/ \E body \in UserBodies(Identifiers, Tokens), time \in Times :
          registerUser(body, time) /\ UNCHANGED <<roundTrip, concVars>>
    \/ \E body \in UserBodies(Identifiers, Tokens), time \in Times :
          deleteUser(body, time) /\ UNCHANGED <<roundTrip, concVars>>
    \/ Tick /\ UNCHANGED <<roundTrip, concVars>>

\* User "a" sends both kinds of sync request with every token, and every
\* identifier sends unregister requests with every token; one binding, "a"
\* with token "x", is ever registered.
NextSync ==
    \/ \E body \in SyncBodies({"a"}, Tokens, {"a"}), time \in Times :
          \E fraction \in FractionsFrom(time) :
             fullDiscovery(body, time, fraction) /\ UNCHANGED <<roundTrip, concVars>>
    \/ \E body \in SyncBodies({"a"}, Tokens, {"a"}), time \in Times :
          \E fraction \in FractionsFrom(time) :
             incrementalDiscovery(body, time, fraction) /\ UNCHANGED <<roundTrip, concVars>>
    \/ \E body \in UserBodies({"a"}, {"x"}), time \in Times :
          registerUser(body, time) /\ UNCHANGED <<roundTrip, concVars>>
    \/ \E body \in UserBodies(Identifiers, Tokens), time \in Times :
          deleteUser(body, time) /\ UNCHANGED <<roundTrip, concVars>>
    \/ Tick /\ UNCHANGED <<roundTrip, concVars>>

\* User management only, the test endpoints included.
NextUsers ==
    \/ \E body \in UserBodies(Identifiers, Tokens), time \in Times :
          registerUser(body, time) /\ UNCHANGED <<roundTrip, concVars>>
    \/ \E body \in UserBodies(Identifiers, Tokens), time \in Times :
          deleteUser(body, time) /\ UNCHANGED <<roundTrip, concVars>>
    \/ resetServer /\ UNCHANGED <<roundTrip, concVars>>
    \/ \E number \in (0..MaxCreate) \cup {TooMany + 1} :
         \E pairs \in SeqsUpTo(RandomIds \X RandomTokens, MaxCreate) :
            \E times \in SeqsUpTo(Times, MaxCreate) :
               createUsers(number, pairs, times) /\ UNCHANGED <<roundTrip, concVars>>
    \/ \E body \in SyncBodies(Identifiers, Tokens, Identifiers) :
         \E tokens \in SeqsUpTo(RandomTokens, max_contacts + 1) :
            \E times \in SeqsUpTo(Times, max_contacts + 1) :
               addUsers(body, tokens, times) /\ UNCHANGED <<roundTrip, concVars>>
    \/ Tick /\ UNCHANGED <<roundTrip, concVars>>

\* Every endpoint that writes to the user sets or reads the delta sets, one
\* request at a time: every identifier registers and unregisters, user "a"
\* syncs lists of up to max_contacts identifiers against the delta sets
\* with token "x", and the test endpoints add users and reset the server.
NextDir ==
    \/ \E body \in UserBodies(Identifiers, {"x"}), time \in Times :
          registerUser(body, time) /\ UNCHANGED <<roundTrip, concVars>>
    \/ \E body \in UserBodies(Identifiers, {"x"}), time \in Times :
          deleteUser(body, time) /\ UNCHANGED <<roundTrip, concVars>>
    \/ \E body \in DirBodies, time \in Times :
          \E fraction \in FractionsFrom(time) :
             incrementalDiscovery(body, time, fraction) /\ UNCHANGED <<roundTrip, concVars>>
    \/ resetServer /\ UNCHANGED <<roundTrip, concVars>>
    \/ \E number \in (0..MaxCreate) \cup {TooMany + 1} :
         \E pairs \in SeqsUpTo(RandomIds \X RandomTokens, MaxCreate) :
            \E times \in SeqsUpTo(Times, MaxCreate) :
               createUsers(number, pairs, times) /\ UNCHANGED <<roundTrip, concVars>>
    \/ \E body \in DirBodies :
         \E tokens \in SeqsUpTo(RandomTokens, max_contacts + 1) :
            \E times \in SeqsUpTo(Times, max_contacts + 1) :
               addUsers(body, tokens, times) /\ UNCHANGED <<roundTrip, concVars>>
    \/ Tick /\ UNCHANGED <<roundTrip, concVars>>

\* Every identifier registers and unregisters with every token, one request
\* at a time; the round trips are recorded.
NextRound ==
    \/ \E body \in UserBodies(Identifiers, Tokens), time \in Times :
          registerUser(body, time) /\ TrackRound /\ UNCHANGED concVars
    \/ \E body \in UserBodies(Identifiers, Tokens), time \in Times :
          deleteUser(body, time) /\ TrackRound /\ UNCHANGED concVars
    \/ Tick /\ TrackRound /\ UNCHANGED concVars

\* History: roundTrip.stage is "unregistered" after an unregister that
\* succeeded, before being the containers as they were before that request,
\* and "registered" after the register of the same user that follows it,
\* with any token; time may pass in between.
TrackReset ==
    roundTrip' =
        IF /\ request'.endpoint = "delete"
           /\ request'.kind = "message"
           /\ response'.result = SUCCESS
        THEN [stage |-> "unregistered", user |-> request'.user,
              auth_token |-> request'.auth_token, s1 |-> s1, before |-> Containers]
        ELSE IF /\ request'.endpoint = "register"
                /\ request'.kind = "message"
                /\ roundTrip.stage = "unregistered"
                /\ request'.user = roundTrip.user
        THEN [roundTrip EXCEPT !.stage = "registered",
                               !.auth_token = request'.auth_token]
        ELSE IF request'.endpoint = "none" /\ roundTrip.stage = "unregistered"
        THEN roundTrip
        ELSE NoRound

\* The sync requests that count against a bucket when they are authentic:
\* those of user "a" with a list of one contact up to max_contacts contacts;
\* and the body that does not parse.
CountedBodies ==
    {InvalidBody} \cup
    {Message("a", t, ids) : t \in Tokens,
                            ids \in SeqsUpTo({"a"}, max_contacts) \ {<<>>}}

\* User "a" registers, unregisters and sends both kinds of sync request, with
\* every token; the unregister-register round trips are recorded.
NextReset ==
    \/ \E body \in CountedBodies, time \in Times :
          \E fraction \in FractionsFrom(time) :
             fullDiscovery(body, time, fraction) /\ TrackReset /\ UNCHANGED concVars
    \/ \E body \in CountedBodies, time \in Times :
          \E fraction \in FractionsFrom(time) :
             incrementalDiscovery(body, time, fraction) /\ TrackReset /\ UNCHANGED concVars
    \/ \E body \in UserBodies({"a"}, Tokens), time \in Times :
          registerUser(body, time) /\ TrackReset /\ UNCHANGED concVars
    \/ \E body \in UserBodies({"a"}, Tokens), time \in Times :
          deleteUser(body, time) /\ TrackReset /\ UNCHANGED concVars
    \/ Tick /\ TrackReset /\ UNCHANGED concVars

----------------------------------------------------------------------------
(* Initial state: the module-level objects of app.py right after import,    *)
(* and a freshly constructed stand-alone bucket.                            *)

Init ==
    /\ s1 = EmptyDict
    /\ s2_added = EmptyDict
    /\ s2_removed = EmptyDict
    /\ s1_buckets = EmptyDict
    /\ s2_buckets = EmptyDict
    /\ clock = 0
    /\ frac = 0
    /\ request = NoRequest
    /\ response = NoResponse
    /\ lastEvent = [u \in Identifiers |-> NoEvent]
    /\ roundTrip = NoRound
    /\ threads = [t \in Threads |-> NoThread]
    /\ base = NoPair
    /\ layout = [s2_added |-> NewLayout, s2_removed |-> NewLayout]
    /\ myBucket = Bucket_init(2, 4)
    /\ bucket = EmptyDict
    /\ btime = FloatZero
    /\ bcall = NoCall
    /\ bcalls = 0
    /\ ordered = TRUE
    /\ ideal = EmptyDict
    /\ admitted = <<>>
    /\ unswept = NoShadow
    /\ mySet = EmptyDict
    /\ myExpSet = EmptyDict
    /\ setCall = NoSetCall
    /\ written = [u \in SetUsers |-> NeverWritten]
    /\ addedAt = [u \in SetUsers |-> -1]

SpecFull == Init /\ [][NextFull]_vars

SpecInc == Init /\ [][NextInc]_vars

SpecSync == Init /\ [][NextSync]_vars

SpecUsers == Init /\ [][NextUsers]_vars

SpecBucket == Init /\ [][NextBucket]_vars

SpecRate == Init /\ [][NextRate]_vars

SpecRound == Init /\ [][NextRound]_vars

SpecThreads == Init /\ [][NextThreads]_vars

SpecDir == Init /\ [][NextDir]_vars

SpecClean == Init /\ [][NextClean]_vars

SpecSets == Init /\ [][NextSets]_vars

SpecReset == Init /\ [][NextReset]_vars

----------------------------------------------------------------------------------------------------------------------------------------
(* Properties of the stand-alone bucket (SpecRate, SpecBucket).             *)

\* tau <= time, for a stored tau and the time of a call.
NotAfter(tau, time) == ~FloatLess(time, tau)

\* The amounts of the admitted calls number i to j.
RECURSIVE AdmittedIn(_, _)
AdmittedIn(i, j) ==
    IF i > j THEN 0 ELSE admitted[i].amount + AdmittedIn(i + 1, j)

\* C1: rate-limit bound.  While the calls come with non-decreasing times,
\* for every interval [t1, t2] the amounts of the user's admitted calls
\* made at a time in the interval sum to at most C + (C/P) * (t2 - t1).
\* It is stated for the intervals from one admitted call to a later one,
\* the times being the numbers the calls were given, and both sides are
\* multiplied by P:  C * t1 + P * (sum - C) <= C * t2.
C1_RateLimitBound ==
    ordered =>
      \A i \in 1..Len(admitted) : \A j \in i..Len(admitted) :
        AdmittedIn(i, j) > test_max_count =>
          ~ExactLess(ExactTimes(test_max_count, Exact(admitted[j].time)),
                     ExactPlus(ExactTimes(test_max_count, Exact(admitted[i].time)),
                               ExactTimes(test_drain_period,
                                          ExactInt(AdmittedIn(i, j)
                                                     - test_max_count))))

\* C2: whatever calls the bucket has taken, earlier times than the call
\* before included, userCanSyncAmount returns what the decision table
\* returns when it is given the same calls from the same empty start, the
\* bucket holds an entry for the users the table holds one for, and a call
\* leaves the entries of the other users untouched.
C2_DecisionTable ==
    /\ bcall.op = "sync" => bcall.ret = bcall.table
    /\ DOMAIN bucket = DOMAIN ideal
    /\ \A user \in BucketUsers : \A amount \in BucketAmounts :
         \A now \in BucketTimes :
           LET r == Bucket_userCanSyncAmount(myBucket, bucket, user, amount,
                                             now)
           IN  \A v \in BucketUsers \ {user} :
                  Bucket_get(r.users, v) = Bucket_get(bucket, v)

----------------------------------------------------------------------------
(* Properties of the request handlers.  In a step that handles a request,   *)
(* request' is that request and response' its answer, the unprimed clock is *)
(* the time read by the sweep, clock' the second read by the callback and   *)
(* WallClock(clock', frac') what a discovery callback passes to the bucket. *)

\* time() as it was read last.
Now == WallClock(clock, frac)

\* The readings the wall clock can give from here on, <<second, fraction>>.
Later ==
    {w \in (clock..MaxTime) \X Fractions : w[1] > clock \/ w[2] >= frac}

IsSync(endpoint) == endpoint \in {"full", "incremental"}

\* The credentials (user, token) are those of a registered user.
Authentic(users, user, token) == user \in DOMAIN users /\ users[user] = token

\* A delta set without the entries whose deadline is T or earlier.
Swept(set, T) == [k \in {x \in DOMAIN set : set[x] > T} |-> set[k]]

\* The sub-sequence of ids whose elements are in S.
RECURSIVE Kept(_, _)
Kept(ids, S) ==
    IF ids = <<>> THEN <<>>
    ELSE IF Head(ids) \in S THEN <<Head(ids)>> \o Kept(Tail(ids), S)
    ELSE Kept(Tail(ids), S)

\* The decision of the table of admit(user, amount, now) on a bucket of the
\* server: amount <= C and, the bucket taken as empty when it has no entry
\* or tau <= now, the new drain time not later than now + P.
Admits(self, users, user, amount, now) ==
    LET tau == Bucket_get(users, user)
        start == IF tau = None \/ ~FloatLess(now, tau) THEN now ELSE tau
    IN  /\ amount <= self.max_count
        /\ ~FloatLess(FloatAdd(now, self.drain_period),
                      FloatAdd(start, FloatDiv(Float(amount), self.leak_rate)))

\* C3: a refused userCanSyncAmount leaves the dict as it was, for both
\* reasons of refusal, and amount > C is refused in every bucket state, for
\* every user the server knows and at every time it can still read; a sync
\* request answered RATE_LIMIT_EXCEEDED leaves both buckets unchanged.
C3_RefusalChangesNothing ==
    /\ [](\A user \in DOMAIN s1 \cup DOMAIN s1_buckets \cup DOMAIN s2_buckets :
           \A amount \in 0..(max_contacts + 1) :
           \A w \in Later :
             LET f == Bucket_userCanSyncAmount(B_full, s1_buckets, user, amount,
                                               WallClock(w[1], w[2]))
                 i == Bucket_userCanSyncAmount(B_inc, s2_buckets, user, amount,
                                               WallClock(w[1], w[2]))
             IN  /\ ~f.ret => f.users = s1_buckets
                 /\ ~i.ret => i.users = s2_buckets
                 /\ amount > max_contacts => ~f.ret /\ ~i.ret)
    /\ [][(IsSync(request'.endpoint) /\ response'.result = RATE_LIMIT_EXCEEDED)
            => (s1_buckets' = s1_buckets /\ s2_buckets' = s2_buckets)]_vars

\* A sync of a list that is not too long was refused by the bucket, which
\* holds the user's entry.
C3_Witness ==
    /\ request.endpoint = "incremental"
    /\ response.result = RATE_LIMIT_EXCEEDED
    /\ Len(request.identifiers) \in 1..max_contacts
    /\ request.user \in DOMAIN s2_buckets
    /\ FloatLess(Now, s2_buckets[request.user])

\* C6: unregister, fullSync and incrementalSync answer AUTHENTICATION_INVALID
\* exactly when the user is not a key of S1 or the token differs from the
\* stored one; then S1 and both buckets are unchanged and the delta sets
\* lose nothing but what the sweep removes and gain nothing.
C6_AuthenticationRule ==
    [][(request'.endpoint \in {"delete", "full", "incremental"}
          /\ request'.kind = "message")
        => LET invalid == \/ request'.user \notin DOMAIN s1
                          \/ s1[request'.user] # request'.auth_token
           IN  /\ (response'.result = AUTHENTICATION_INVALID) <=> invalid
               /\ invalid => /\ s1' = s1
                             /\ s1_buckets' = s1_buckets
                             /\ s2_buckets' = s2_buckets
                             /\ s2_added' = Swept(s2_added, clock)
                             /\ s2_removed' = Swept(s2_removed, clock)]_vars

\* An unregister request with the wrong token of a registered user was
\* refused; the user is still registered and not in S2_removed.
C6_Witness ==
    /\ request.endpoint = "delete"
    /\ response.result = AUTHENTICATION_INVALID
    /\ request.user \in DOMAIN s1
    /\ s1[request.user] # request.auth_token
    /\ request.user \in DOMAIN s2_added
    /\ request.user \notin DOMAIN s2_removed

\* C7: a sync request with invalid credentials is answered
\* AUTHENTICATION_INVALID and changes neither bucket, whatever the length of
\* its list and the state of the named user's bucket.
C7_AuthenticationFirst ==
    [][(IsSync(request'.endpoint) /\ request'.kind = "message"
          /\ ~Authentic(s1, request'.user, request'.auth_token))
        => /\ response'.result = AUTHENTICATION_INVALID
           /\ response'.added_users = <<>> /\ response'.removed_users = <<>>
           /\ s1_buckets' = s1_buckets
           /\ s2_buckets' = s2_buckets]_vars

\* A sync with the wrong token and a list longer than max_contacts, naming a
\* user whose bucket is full, was answered AUTHENTICATION_INVALID.
C7_Witness ==
    /\ request.endpoint = "incremental"
    /\ response.result = AUTHENTICATION_INVALID
    /\ Len(request.identifiers) > max_contacts
    /\ request.user \in DOMAIN s1
    /\ request.user \in DOMAIN s2_buckets
    /\ s2_buckets[request.user] = FloatAdd(Now, B_inc.drain_period)

\* C8: an authenticated sync is answered RATE_LIMIT_EXCEEDED if and only if
\* its list has more than C entries or the bucket of its endpoint refuses the
\* length of the list at the current time; exactly C entries on an empty
\* bucket are admitted; a longer list leaves the buckets as they were.
C8_RateLimitIff ==
    [][(IsSync(request'.endpoint) /\ request'.kind = "message"
          /\ Authentic(s1, request'.user, request'.auth_token))
        => \A now \in {WallClock(clock', frac')} :
           LET n == Len(request'.identifiers)
               full == request'.endpoint = "full"
               B == IF full THEN s1_buckets ELSE s2_buckets
               self == IF full THEN B_full ELSE B_inc
               refuses == ~Admits(self, B, request'.user, n, now)
           IN  /\ (response'.result = RATE_LIMIT_EXCEEDED)
                     <=> (n > max_contacts \/ refuses)
               /\ (n = max_contacts /\ request'.user \notin DOMAIN B)
                     => response'.result = SUCCESS
               /\ n > max_contacts
                     => (s1_buckets' = s1_buckets /\ s2_buckets' = s2_buckets)]_vars

\* A list of exactly max_contacts entries was admitted and filled the bucket.
C8_Witness ==
    /\ request.endpoint = "incremental"
    /\ response.result = SUCCESS
    /\ Len(request.identifiers) = max_contacts
    /\ s2_buckets[request.user] = FloatAdd(Now, B_inc.drain_period)
    /\ request.user \notin DOMAIN s1_buckets

\* C9: an authenticated sync with an empty list returns SUCCESS with empty
\* added_users and removed_users and leaves both buckets unchanged.
C9_EmptyListFree ==
    [][(IsSync(request'.endpoint) /\ request'.kind = "message"
          /\ Authentic(s1, request'.user, request'.auth_token)
          /\ request'.identifiers = <<>>)
        => /\ response' = makeResponse(<<>>, <<>>)
           /\ s1_buckets' = s1_buckets
           /\ s2_buckets' = s2_buckets]_vars

\* An empty full sync succeeded for a user whose full-sync bucket is full.
C9_Witness ==
    /\ request.endpoint = "full"
    /\ request.identifiers = <<>>
    /\ response = makeResponse(<<>>, <<>>)
    /\ request.user \in DOMAIN s1_buckets
    /\ s1_buckets[request.user] = FloatAdd(Now, B_full.drain_period)

\* C4: a full sync of an authenticated user with a non-empty list of at
\* most C contacts that B_full admits is answered SUCCESS, added_users being
\* the sub-list of the contacts that are keys of S1, removed_users empty.
C4_FullSyncResult ==
    [][(request'.endpoint = "full" /\ request'.kind = "message"
          /\ Authentic(s1, request'.user, request'.auth_token)
          /\ Len(request'.identifiers) \in 1..max_contacts
          /\ \E now \in {WallClock(clock', frac')} :
                Admits(B_full, s1_buckets, request'.user,
                       Len(request'.identifiers), now))
        => /\ response'.result = SUCCESS
           /\ response'.added_users = Kept(request'.identifiers, DOMAIN s1)
           /\ response'.removed_users = <<>>]_vars

\* A full sync returned a contact whose registration is older than Delta
\* and left out a contact that is not registered.
C4_Witness ==
    /\ request.endpoint = "full"
    /\ response.result = SUCCESS
    /\ \E i \in 1..Len(request.identifiers) :
          request.identifiers[i] \notin DOMAIN s1
    /\ \E i \in 1..Len(response.added_users) :
          LET c == response.added_users[i]
          IN  /\ c \in DOMAIN s1
              /\ c \notin DOMAIN s2_added
              /\ lastEvent[c].kind = "register"
              /\ lastEvent[c].time + s2_delta <= clock

\* The identifiers whose latest event is of the given kind and less than
\* Delta seconds old at time now.
InWindow(kind, now) ==
    {u \in Identifiers : lastEvent[u].kind = kind /\ lastEvent[u].time + s2_delta > now}

\* C5: an admitted incremental sync handled at time now (the time its sweep
\* reads) returns in added_users exactly the contacts whose latest event is a
\* register less than Delta old, in removed_users exactly those whose latest
\* event is an unregister less than Delta old.
C5_IncrementalInWindow ==
    [][(request'.endpoint = "incremental" /\ response'.result = SUCCESS)
        => /\ response'.added_users
                = Kept(request'.identifiers, InWindow("register", clock))
           /\ response'.removed_users
                = Kept(request'.identifiers, InWindow("unregister", clock))]_vars

\* An incremental sync returned a recent registration and left out a
\* contact whose unregistration is Delta or more seconds old.
C5_Witness ==
    /\ request.endpoint = "incremental"
    /\ response.result = SUCCESS
    /\ response.added_users # <<>>
    /\ response.removed_users = <<>>
    /\ \E i \in 1..Len(request.identifiers) :
          LET c == request.identifiers[i]
          IN  /\ lastEvent[c].kind = "unregister"
              /\ lastEvent[c].time + s2_delta <= clock

\* The entry of a key in a dict: <<value>>, or <<>> when the key is absent.
Entry(d, k) == IF k \in DOMAIN d THEN <<d[k]>> ELSE <<>>

\* C10: after register(user, token) at time now the binding is valid, the
\* user is in S2_added with deadline now + Delta and not in S2_removed; the
\* entries of the other users are as the sweep of the request left them.
C10_RegisterEffect ==
    [][(request'.endpoint = "register" /\ request'.kind = "message")
        => LET u == request'.user
           IN  /\ response' = makeResponse(<<>>, <<>>)
               /\ Authentic(s1', u, request'.auth_token)
               /\ Entry(s2_added', u) = <<clock' + s2_delta>>
               /\ Entry(s2_removed', u) = <<>>
               /\ \A v \in Identifiers \ {u} :
                     /\ Entry(s1', v) = Entry(s1, v)
                     /\ Entry(s2_added', v) = Entry(Swept(s2_added, clock), v)
                     /\ Entry(s2_removed', v) = Entry(Swept(s2_removed, clock), v)]_vars

\* A user was registered after time 0 while another one was in S2_removed.
C10_Witness ==
    /\ request.endpoint = "register"
    /\ request.kind = "message"
    /\ clock > 0
    /\ Entry(s2_added, request.user) = <<clock + s2_delta>>
    /\ \E v \in Identifiers \ {request.user} : v \in DOMAIN s2_removed

----------------------------------------------------------------------------
(* Properties of a register directly followed by the unregister of the      *)
(* same user with the same token (SpecRound).  In the state after the       *)
(* unregister, clock is the time the unregister read.                       *)

\* C11 as stated: after register(u, t) and then unregister(u, t), S1 is what
\* it was before the register, whether or not u was registered before, u is
\* in S2_removed with deadline (time of the unregister) + Delta, and u is
\* not in S2_added.
C11_RoundTripRestoresS1 ==
    roundTrip.stage = "unregistered"
        => /\ s1 = roundTrip.s1
           /\ Entry(s2_removed, roundTrip.user) = <<clock + s2_delta>>
           /\ Entry(s2_added, roundTrip.user) = <<>>

\* C11, amended: after register(u, t) and then unregister(u, t), S1 is what
\* it was before the register without the entry of u (so equal to it when u
\* was not registered before), u is in S2_removed with deadline (time of the
\* unregister) + Delta, and u is not in S2_added.
C11_RoundTripRemovesUser ==
    roundTrip.stage = "unregistered"
        => /\ \A v \in Identifiers :
                 Entry(s1, v) = IF v = roundTrip.user THEN <<>>
                                ELSE Entry(roundTrip.s1, v)
           /\ Entry(s2_removed, roundTrip.user) = <<clock + s2_delta>>
           /\ Entry(s2_added, roundTrip.user) = <<>>

\* A round trip of a user who was registered before with another token,
\* while another user is registered, ended after time 0.
C11_Witness ==
    /\ roundTrip.stage = "unregistered"
    /\ roundTrip.user \in DOMAIN roundTrip.s1
    /\ roundTrip.s1[roundTrip.user] # roundTrip.auth_token
    /\ \E v \in DOMAIN s1 : v # roundTrip.user
    /\ clock > 0

----------------------------------------------------------------------------------------------------------------------------------------
(* Properties of the level of the stand-alone bucket (SpecBucket).  bcall   *)
(* is the latest call and bucket the dict it left; C = test_max_count and   *)
(* P = test_drain_period.                                                   *)

\* The seconds of the query times: the quarters of the drain period up to
\* twice the drain period, and past every horizon.
LevelSeconds ==
    {(i * test_drain_period) \div 4 : i \in 0..8}
      \cup {test_drain_period + 1, 2 * test_drain_period + MaxBucketTime + 1}

\* The query times: the time of the latest call and the times from then on.
LevelTimes ==
    {now \in {WallClock(s, f) : s \in LevelSeconds, f \in BucketFractions}
               \cup {btime} : ~FloatLess(now, btime)}

Level(user, now) == Bucket_currentSizeForUser(myBucket, bucket, user, now)

\* The user's bucket held nothing at the time of the latest call, before it.
WasEmpty == bcall.before = None \/ NotAfter(bcall.before, bcall.time)

\* C14: currentSizeForUser(user, now) is 0 when the user has no entry and
\* whenever tau(user) <= now; otherwise it is ceil((tau(user) - now) * r),
\* the product as the floats give it, and while the calls come in the order
\* of their times it is never more than C.
C14_LevelFunction ==
    \A user \in BucketUsers : \A now \in LevelTimes :
        IF user \notin DOMAIN bucket \/ NotAfter(Bucket_get(bucket, user), now)
        THEN Level(user, now) = 0
        ELSE /\ Level(user, now)
                  = Ceil(FloatMul(FloatSub(bucket[user], now),
                                  myBucket.leak_rate))
             /\ ordered => Level(user, now) <= test_max_count

\* C15: while the calls come with non-decreasing times, for every user with
\* an entry and every query time not earlier than the latest call,
\* 0 <= currentSizeForUser(user, now) <= C.
C15_LevelBounds ==
    ordered =>
      \A user \in DOMAIN bucket : \A now \in LevelTimes :
        /\ 0 <= Level(user, now)
        /\ Level(user, now) <= test_max_count

\* C16: right after userCanSyncAmount(u, k, t) returned True, the level of u
\* at t is at least k, and exactly k when the bucket was empty for u; in
\* every bucket state, an admitted call at any time leaves such a level.
C16_LevelAfterAdmit ==
    /\ (bcall.op = "sync" /\ bcall.ret)
          => /\ Level(bcall.user, bcall.time) >= bcall.amount
             /\ WasEmpty => Level(bcall.user, bcall.time) = bcall.amount
    /\ \A user \in BucketUsers : \A k \in BucketAmounts : \A t \in BucketTimes :
            LET r == Bucket_userCanSyncAmount(myBucket, bucket, user, k, t)
                level == Bucket_currentSizeForUser(myBucket, r.users, user, t)
            IN  r.ret => /\ level >= k
                         /\ (user \notin DOMAIN bucket
                               \/ NotAfter(Bucket_get(bucket, user), t))
                               => level = k

\* C17: while the calls come with non-decreasing times, every stored entry
\* satisfies tau(u) <= now + P, now being the time of the latest call and
\* now + P the sum userCanSyncAmount compares with (time +
\* self.drain_period).
C17_Horizon ==
    ordered =>
      \A u \in DOMAIN bucket :
         NotAfter(bucket[u], FloatAdd(btime, myBucket.drain_period))

\* x <= P for the query time t0 + x, t0 being the time of the latest call.
WithinPeriod(now) ==
    ~ExactLess(ExactPlus(Exact(bcall.time), ExactInt(test_drain_period)),
               Exact(now))

\* n = floor(C * x / P) for the query time t0 + x:
\* C * t0 + n * P <= C * (t0 + x) < C * t0 + (n + 1) * P.
DrainedBy(n, now) ==
    /\ n >= 0
    /\ ~ExactLess(ExactTimes(test_max_count, Exact(now)),
                  ExactPlus(ExactTimes(test_max_count, Exact(bcall.time)),
                            ExactInt(n * test_drain_period)))
    /\ ExactLess(ExactTimes(test_max_count, Exact(now)),
                 ExactPlus(ExactTimes(test_max_count, Exact(bcall.time)),
                           ExactInt((n + 1) * test_drain_period)))

\* C18: right after userCanSyncAmount(u, C, t0) returned True on a bucket
\* empty for u, the level of u at t0 + x is ceil(C * (P - x) / P), that is
\* C - floor(C * x / P), for every 0 <= x <= P, C at x = 0, and it does not
\* rise over these x.
C18_DrainSchedule ==
    (bcall.op = "sync" /\ bcall.ret /\ bcall.amount = test_max_count /\ WasEmpty)
      => /\ \A now \in LevelTimes :
               WithinPeriod(now)
                 => DrainedBy(test_max_count - Level(bcall.user, now), now)
         /\ Level(bcall.user, bcall.time) = test_max_count
         /\ \A now \in LevelTimes : \A later \in LevelTimes :
               (FloatLess(now, later) /\ WithinPeriod(later))
                 => Level(bcall.user, later) <= Level(bcall.user, now)

\* The time of the next attempt of a refused user that waits for the
\* amount to leak: time + amount / leak_rate, as the floats give it.
RetryTime ==
    FloatAdd(bcall.time, FloatDiv(Float(bcall.amount), myBucket.leak_rate))

\* C19: in a bucket whose calls came with non-decreasing times, right after
\* userCanSyncAmount(u, k, t) returned False with k <= C, and so with no
\* call admitted in between, userCanSyncAmount(u, k, t') returns True for
\* every t' >= t + k / r, r = C / P and the times being the numbers the
\* calls are given:  C * t + k * P <= C * t'.
C19_Recovery ==
    (ordered /\ bcall.op = "sync" /\ ~bcall.ret /\ bcall.amount <= test_max_count)
      => \A t \in LevelTimes \cup {RetryTime} :
            ~ExactLess(ExactTimes(test_max_count, Exact(t)),
                       ExactPlus(ExactTimes(test_max_count, Exact(bcall.time)),
                                 ExactInt(bcall.amount * test_drain_period)))
              => Bucket_userCanSyncAmount(myBucket, bucket,
                                          bcall.user, bcall.amount, t).ret

----------------------------------------------------------------------------
(* Properties of the sweep of the delta sets (SpecRound).                   *)

\* The sweep times: every time a deadline of the model can be compared with.
SweepTimes == 0..(MaxTime + s2_delta)

\* update(T) on one set: the entries with deadline > T stay as they are, the
\* others go, the number of those is returned, and of two stored users whose
\* deadlines T separates, containedUsers returns the later one only.
SweepsExactly(set) ==
    \A T \in SweepTimes :
        LET r == ExpiringUserSet_update(set, T)
        IN  /\ \A u \in Identifiers :
                  Entry(r.users, u) = IF u \in DOMAIN set /\ set[u] > T
                                      THEN <<set[u]>> ELSE <<>>
            /\ r.removed = Cardinality({u \in DOMAIN set : set[u] <= T})
            /\ \A u \in DOMAIN r.users : r.users[u] > T
            /\ \A u1 \in DOMAIN set : \A u2 \in DOMAIN set :
                  (set[u1] <= T /\ T < set[u2])
                    => ExpiringUserSet_containedUsers(r.users, <<u1, u2>>) = <<u2>>

\* C20: ExpiringUserSet.update(T) removes exactly the entries with deadline
\* <= T, keeps the others unchanged and returns the number removed; after the
\* sweep of a request, made at the time T the request reads first, every
\* entry of both delta sets has a deadline > T.
C20_SweepExact ==
    /\ [](SweepsExactly(s2_added) /\ SweepsExactly(s2_removed))
    /\ [][request'.endpoint \in {"register", "delete"}
            => /\ \A u \in DOMAIN s2_added' : s2_added'[u] > clock
               /\ \A u \in DOMAIN s2_removed' : s2_removed'[u] > clock]_vars

\* A request was handled at a time when the registration of one user was
\* Delta old and that of another was not: the first has left S2_added, the
\* second is still there.
C20_Witness ==
    /\ request.endpoint \in {"register", "delete"}
    /\ \E u1 \in DOMAIN s1 : \E u2 \in DOMAIN s2_added :
          /\ lastEvent[u1].kind = "register"
          /\ lastEvent[u1].time + s2_delta <= clock
          /\ u1 \notin DOMAIN s2_added
          /\ s2_added[u2] > clock
          /\ ExpiringUserSet_containedUsers(s2_added, <<u1, u2>>) = <<u2>>

----------------------------------------------------------------------------
(* Properties of requests handled by threads at once (SpecThreads).  The    *)
(* requests compared with a one-at-a-time order are the pairs that          *)
(* overlapped with no third request, during which every reading of the      *)
(* clock gave the same time, so that the readings are the same in the       *)
(* threads and in that order.                                               *)

\* The two threads of such a pair, both done.
Pair == {t \in Threads : threads[t].pc = "done"}

AllDone == base.requests = 2 /\ Quiescent

\* The clock shows what it showed when the first of the pair arrived.
StoodStill == base.clock = clock /\ base.frac = frac

\* What the two threads have produced.
Outcome ==
    [state |-> Containers, responses |-> [t \in Pair |-> threads[t].response]]

\* What handling the request of thread first alone, then that of thread
\* second alone, produces from the containers the requests found.
Serial(first, second) ==
    LET a == Serve(base, threads[first].endpoint, threads[first].body,
                   clock, clock, frac)
        b == Serve(a.state, threads[second].endpoint, threads[second].body,
                   clock, clock, frac)
    IN  [state |-> b.state,
         responses |-> [t \in {first, second} |-> IF t = first THEN a.response
                                                  ELSE b.response]]

\* C12: when two handlers of register, unregister, fullSync or
\* incrementalSync have run concurrently, the five containers and the two
\* responses are those that one of the two one-at-a-time orders of the same
\* requests produces; in particular a register and an unregister of a user
\* never leave the user in S2_added but not in S1.
C12_Atomic ==
    (/\ AllDone
     /\ StoodStill
     /\ \A t \in Pair : IsWrapped(threads[t].endpoint))
      => /\ \E first \in Pair : \E second \in Pair \ {first} :
               Outcome = Serial(first, second)
         /\ {threads[t].endpoint : t \in Pair} = {"register", "delete"}
               => \A u \in DOMAIN s2_added : u \in DOMAIN s1

\* C13: when two sync requests of one user, to the same endpoint, have run
\* concurrently and both were admitted, running them one after the other
\* admits both as well, and tau(u) has advanced by the sum of both amounts
\* divided by r from the drain time found (from now, on an empty bucket).
C13_NoLostUpdate ==
    \A t1 \in Pair : \A t2 \in Pair \ {t1} :
      (/\ AllDone
       /\ StoodStill
       /\ threads[t1].endpoint = threads[t2].endpoint
       /\ IsSyncEndpoint(threads[t1].endpoint)
       /\ threads[t1].body.user = threads[t2].body.user
       /\ \A t \in Pair : /\ threads[t].response.result = SUCCESS
                          /\ threads[t].response.text = ""
                          /\ threads[t].body.identifiers # <<>>)
        => LET full == threads[t1].endpoint = "full"
               u == threads[t1].body.user
               P == IF full THEN s2_delta ELSE s2_period
               B == IF full THEN B_full ELSE B_inc
               found == IF full THEN base.s1_buckets ELSE base.s2_buckets
               now == IF full THEN s1_buckets ELSE s2_buckets
               n1 == Len(threads[t1].body.identifiers)
               n2 == Len(threads[t2].body.identifiers)
               start == IF u \notin DOMAIN found \/ FloatLess(found[u], Now)
                        THEN Now ELSE found[u]
               one == Bucket_userCanSyncAmount(B, found, u, n1, Now)
               two == Bucket_userCanSyncAmount(B, one.users, u, n2, Now)
           IN  /\ one.ret /\ two.ret
               /\ Entry(now, u)
                    = <<FloatAdd(start, FloatDiv(Float((n1 + n2) * P),
                                                 Float(max_contacts)))>>

----------------------------------------------------------------------------
(* Properties of the stand-alone sets (SpecSets).  setCall is the latest    *)
(* call and setCall.before the dict it found.                               *)

SetCalled(set, op) == setCall.set = set /\ setCall.op = op

\* C21: every identifier of the expiring set is absent or has one deadline,
\* the time of the latest addUser of that identifier plus the expiration
\* time; addUser of a present identifier replaces its deadline, leaves the
\* other entries alone and leaves userCount unchanged.
C21_DeadlineInvariant ==
    /\ \A u \in DOMAIN myExpSet :
          /\ addedAt[u] >= 0
          /\ myExpSet[u] = addedAt[u] + test_expiration_time
    /\ \A u \in SetUsers : \A now \in 0..MaxSetTime :
          LET after == ExpiringUserSet_addUser(myExpSet, test_expiration_time, u, now)
          IN  /\ Entry(after, u) = <<now + test_expiration_time>>
              /\ \A v \in SetUsers \ {u} : Entry(after, v) = Entry(myExpSet, v)
              /\ u \in DOMAIN myExpSet
                    => ExpiringUserSet_userCount(after)
                         = ExpiringUserSet_userCount(myExpSet)
    /\ (SetCalled("ExpiringUserSet", "addUser") /\ setCall.user \in DOMAIN setCall.before)
          => ExpiringUserSet_userCount(myExpSet)
               = ExpiringUserSet_userCount(setCall.before)

\* addUser of a present identifier moved its deadline, another identifier
\* being in the set.
C21_Witness ==
    /\ SetCalled("ExpiringUserSet", "addUser")
    /\ setCall.user \in DOMAIN setCall.before
    /\ setCall.before[setCall.user] # myExpSet[setCall.user]
    /\ ExpiringUserSet_userCount(myExpSet) = 2

\* C22: isValidUser(id, token) is true exactly when id was added and not
\* removed (or cleared) since and token is the token of the latest addUser
\* of id; a user that exists is valid with its stored token; addUser of a
\* present id makes the old token invalid when the new one differs and
\* leaves userCount unchanged.
C22_LastWriteWins ==
    /\ \A id \in SetUsers : \A token \in SetTokens \cup {""} :
          UserSet_isValidUser(mySet, id, token)
             <=> (written[id].live /\ written[id].token = token)
    /\ \A id \in SetUsers :
          /\ UserSet_userExists(mySet, id) <=> written[id].live
          /\ UserSet_userExists(mySet, id)
                => UserSet_isValidUser(mySet, id, mySet[id])
    /\ \A id \in DOMAIN mySet : \A token \in SetTokens :
          LET after == UserSet_addUser(mySet, id, token)
          IN  /\ UserSet_isValidUser(after, id, token)
              /\ token # mySet[id] => ~UserSet_isValidUser(after, id, mySet[id])
              /\ UserSet_userCount(after) = UserSet_userCount(mySet)
    /\ (SetCalled("UserSet", "addUser") /\ setCall.user \in DOMAIN setCall.before)
          => UserSet_userCount(mySet) = UserSet_userCount(setCall.before)

\* addUser of a present id replaced its token, another id being in the set.
C22_Witness ==
    /\ SetCalled("UserSet", "addUser")
    /\ setCall.user \in DOMAIN setCall.before
    /\ setCall.before[setCall.user] # mySet[setCall.user]
    /\ ~UserSet_isValidUser(mySet, setCall.user, setCall.before[setCall.user])
    /\ UserSet_userCount(mySet) = 2

\* removeUser on one dict: an absent id leaves the dict as it is, a second
\* removal changes nothing, a present id goes alone and the count drops by
\* one.
RemovesOne(set, remove(_, _), count(_)) ==
    \A id \in SetUsers :
        LET once == remove(set, id)
            twice == remove(once, id)
        IN  /\ id \notin DOMAIN set => (once = set /\ count(once) = count(set))
            /\ twice = once
            /\ id \in DOMAIN set
                  => /\ count(once) = count(set) - 1
                     /\ id \notin DOMAIN once
                     /\ \A v \in SetUsers \ {id} : Entry(once, v) = Entry(set, v)

\* C23: removeUser of UserSet and of ExpiringUserSet is total and
\* idempotent: an absent id leaves the map and userCount unchanged, removing
\* twice is removing once, and removing a present id lowers userCount by
\* one and changes no other entry.
C23_RemoveIdempotent ==
    /\ RemovesOne(mySet, UserSet_removeUser, UserSet_userCount)
    /\ RemovesOne(myExpSet, ExpiringUserSet_removeUser, ExpiringUserSet_userCount)
    /\ (SetCalled("UserSet", "removeUser") /\ setCall.user \notin DOMAIN setCall.before)
          => mySet = setCall.before
    /\ (SetCalled("ExpiringUserSet", "removeUser")
          /\ setCall.user \notin DOMAIN setCall.before)
          => myExpSet = setCall.before

\* A user that had been added and removed was removed once more from a set
\* that holds another user.
C23_Witness ==
    /\ SetCalled("UserSet", "removeUser")
    /\ setCall.user \notin DOMAIN setCall.before
    /\ written[setCall.user] # NeverWritten
    /\ mySet = setCall.before
    /\ UserSet_userCount(mySet) = 1

\* containedUsers on one dict, for every list: the sub-sequence of the
\* identifiers that are keys, and a fixed point.
ContainsExactly(set, contained(_, _)) ==
    \A ids \in SetLists :
        LET found == contained(set, ids)
        IN  /\ found = Kept(ids, DOMAIN set)
            /\ \A i \in 1..Len(found) : found[i] \in DOMAIN set
            /\ \A u \in DOMAIN set :
                  Cardinality({i \in 1..Len(found) : found[i] = u})
                    = Cardinality({i \in 1..Len(ids) : ids[i] = u})
            /\ contained(set, found) = found

\* C24: containedUsers(ids), of UserSet and of ExpiringUserSet, returns the
\* sub-sequence of ids whose elements are keys of the map, in input order,
\* a present id as often as it occurs, no absent id; the map is unchanged;
\* containedUsers(containedUsers(X)) = containedUsers(X).
C24_ContainedUsers ==
    /\ ContainsExactly(mySet, UserSet_containedUsers)
    /\ ContainsExactly(myExpSet, ExpiringUserSet_containedUsers)
    /\ SetCalled("UserSet", "containedUsers")
          => /\ mySet = setCall.before
             /\ setCall.ret = Kept(setCall.ids, DOMAIN mySet)
    /\ SetCalled("ExpiringUserSet", "containedUsers")
          => /\ myExpSet = setCall.before
             /\ setCall.ret = Kept(setCall.ids, DOMAIN myExpSet)

\* A list holding a present id twice, around an absent id, was passed to
\* the expiring set.
C24_Witness ==
    /\ SetCalled("ExpiringUserSet", "containedUsers")
    /\ Len(setCall.ids) = 3
    /\ setCall.ids[1] = setCall.ids[3]
    /\ setCall.ids[2] \notin DOMAIN myExpSet
    /\ setCall.ret = <<setCall.ids[1], setCall.ids[1]>>

----------------------------------------------------------------------------
(* Properties of requests whose body is empty or does not parse.  The empty *)
(* body is the body of zero bytes, EmptyBody.                               *)

IsHandler(endpoint) == endpoint \in {"register", "delete", "full", "incremental"}

\* C25: a request with an empty body is answered REQUEST_DATA_MISSING by
\* each of the four handlers and changes no user entry; a register request
\* with an empty body adds no user to S1 or S2_added.
C25_EmptyBodyMissing ==
    [][(IsHandler(request'.endpoint)
          /\ request' = Request(request'.endpoint, EmptyBody))
        => /\ response'.result = REQUEST_DATA_MISSING
           /\ s1' = s1
           /\ DOMAIN s2_added' \subseteq DOMAIN s2_added
           /\ DOMAIN s2_removed' \subseteq DOMAIN s2_removed]_vars

\* C26 as stated: a request that fails with REQUEST_DATA_MISSING or
\* REQUEST_DATA_INVALID leaves all five containers unchanged, S2_added and
\* S2_removed included.
C26_FailedRequestChangesNothing ==
    [][(IsHandler(request'.endpoint)
          /\ response'.result \in {REQUEST_DATA_MISSING, REQUEST_DATA_INVALID})
        => /\ s1' = s1
           /\ s2_added' = s2_added
           /\ s2_removed' = s2_removed
           /\ s1_buckets' = s1_buckets
           /\ s2_buckets' = s2_buckets]_vars

\* C26, amended: the handler runs the sweep first, before the body is read;
\* a request that fails with REQUEST_DATA_MISSING or REQUEST_DATA_INVALID
\* leaves S1 and both buckets unchanged and leaves each delta set without
\* exactly the entries whose deadline is not after the time the sweep read.
C26_FailedRequestSweepsOnly ==
    [][(IsHandler(request'.endpoint)
          /\ response'.result \in {REQUEST_DATA_MISSING, REQUEST_DATA_INVALID})
        => /\ s1' = s1
           /\ s2_added' = Swept(s2_added, clock)
           /\ s2_removed' = Swept(s2_removed, clock)
           /\ s1_buckets' = s1_buckets
           /\ s2_buckets' = s2_buckets]_vars

\* A request whose body does not parse was answered REQUEST_DATA_INVALID at
\* a time when the unregistration of a user was Delta old, and the user is
\* not in S2_removed.
C26_Witness ==
    /\ IsHandler(request.endpoint)
    /\ request.kind = "invalid"
    /\ response.result = REQUEST_DATA_INVALID
    /\ \E u \in Identifiers :
          /\ lastEvent[u].kind = "unregister"
          /\ lastEvent[u].time + s2_delta <= clock
          /\ u \notin DOMAIN s2_removed
          /\ u \notin DOMAIN s1

----------------------------------------------------------------------------
(* Properties of the two delta sets against each other and against S1, in   *)
(* the states the Directory reaches one request at a time (SpecDir).        *)

\* The elements of a sequence.
Range(q) == {q[i] : i \in 1..Len(q)}

\* C28: no user is in S2_added and in S2_removed at once; an incremental
\* sync reports a contact whose latest event is an unregistration inside
\* the window in removed_users only, one whose latest event is a
\* registration inside the window in added_users only.
C28_DeltaSetsDisjoint ==
    /\ [](DOMAIN s2_added \cap DOMAIN s2_removed = {})
    /\ [][(request'.endpoint = "incremental" /\ response'.result = SUCCESS)
            => LET added == Range(response'.added_users)
                   removed == Range(response'.removed_users)
               IN  /\ added \cap removed = {}
                   /\ \A c \in Range(request'.identifiers) :
                         /\ c \in InWindow("unregister", clock)
                               => (c \in removed /\ c \notin added)
                         /\ c \in InWindow("register", clock)
                               => (c \in added /\ c \notin removed)]_vars

\* Less than Delta after the start of the server, an incremental sync
\* reported one contact as added and another, registered and unregistered
\* since the start, as removed.
C28_Witness ==
    /\ request.endpoint = "incremental"
    /\ response.result = SUCCESS
    /\ clock < s2_delta
    /\ clock > 0
    /\ \E c \in Range(response.removed_users) :
          /\ lastEvent[c].kind = "unregister"
          /\ c \notin Range(response.added_users)
    /\ \E c \in Range(response.added_users) :
          /\ lastEvent[c].kind = "register"
          /\ c \notin Range(response.removed_users)

\* C29: every user in S2_added is a key of S1 and no user in S2_removed is
\* a key of S1.
C29_DeltaSetsAgreeWithS1 ==
    /\ \A u \in DOMAIN s2_added : u \in DOMAIN s1
    /\ \A u \in DOMAIN s2_removed : u \notin DOMAIN s1

\* One user is registered for longer than Delta, one for less, and one was
\* unregistered less than Delta ago.
C29_Witness ==
    /\ \E u \in DOMAIN s1 : u \notin DOMAIN s2_added /\ lastEvent[u].kind = "register"
    /\ \E u \in DOMAIN s2_removed : s2_removed[u] > clock
    /\ clock > 0

----------------------------------------------------------------------------
(* Properties of cleanUsers (SpecClean): bucket receives the calls of the   *)
(* run, cleanUsers included; unswept receives the same userCanSyncAmount    *)
(* calls and no cleanUsers.                                                 *)

\* In this bucket state, cleanUsers(T) removes exactly the entries with
\* tau <= T and keeps the others as they are, and a userCanSyncAmount call
\* at a time >= T returns the same value and writes the same tau whether
\* or not cleanUsers(T) ran first.
SweptLikeMissing ==
    \A T \in ShadowTimes :
       LET cleaned == Bucket_cleanUsers(bucket, T)
       IN  /\ \A u \in BucketUsers :
                 Entry(cleaned, u)
                   = IF u \in DOMAIN bucket /\ FloatLess(T, bucket[u])
                     THEN <<bucket[u]>> ELSE <<>>
           /\ \/ cleaned = bucket
              \/ \A u \in BucketUsers : \A k \in ShadowAmounts :
                   \A t \in ShadowTimes :
                     ~FloatLess(t, T) =>
                       LET plain == Bucket_userCanSyncAmount(
                                        myBucket, bucket, u, k, t)
                           swept == Bucket_userCanSyncAmount(
                                        myBucket, cleaned, u, k, t)
                       IN  /\ swept.ret = plain.ret
                           /\ swept.ret => swept.users[u] = plain.users[u]

\* The bucket holds what it would hold had cleanUsers never run, but for
\* entries that a sweep has removed.
ShadowAgrees ==
    unswept.valid =>
      \A u \in BucketUsers :
        \/ Entry(bucket, u) = Entry(unswept.users, u)
        \/ /\ u \notin DOMAIN bucket
           /\ u \in DOMAIN unswept.users
           /\ NotAfter(unswept.users[u], unswept.floor)

\* The call of this step returns and writes what it would have, had
\* cleanUsers never run.
ShadowStep ==
    (bcall'.op = "sync" /\ unswept'.valid)
      => LET u == bcall'.user
             plain == Bucket_userCanSyncAmount(myBucket, unswept.users, u,
                                               bcall'.amount, bcall'.time)
         IN  /\ bcall'.ret = plain.ret
             /\ bcall'.ret => bucket'[u] = unswept'.users[u]

FullBurstFits ==
    ~FloatLess(myBucket.drain_period,
               FloatDiv(Float(myBucket.max_count), myBucket.leak_rate))

----------------------------------------------------------------------------
(* Properties of a register or unregister handled while another request    *)
(* sweeps the delta sets (SpecThreads).                                     *)

\* C27: when the handlers of two requests of different users, each a
\* register, an unregister or a sync, have run concurrently, no sweep was
\* disturbed by an insertion or a removal, and a user that one of them
\* registered (unregistered) with success is in S2_added (S2_removed) with
\* its new deadline.
C27_SweepLosesNothing ==
    (/\ AllDone
     /\ StoodStill
     /\ \A t \in Pair : IsWrapped(threads[t].endpoint))
      => \A t \in Pair : \A o \in Pair \ {t} :
            LET u == threads[t].body.user
            IN  threads[o].body.user # u
                  => /\ threads[t].response.text # "error"
                     /\ threads[t].response = makeResponse(<<>>, <<>>)
                          => /\ threads[t].endpoint = "register"
                                  => Entry(s2_added, u) = <<clock + s2_delta>>
                             /\ threads[t].endpoint = "delete"
                                  => Entry(s2_removed, u) = <<clock + s2_delta>>

----------------------------------------------------------------------------
(* Lifetime of the bucket entries of the service.  app.py never calls      *)
(* Bucket.cleanUsers: _updateUserSets sweeps the two delta sets only.       *)

\* The sync requests of one kind that user "a" sends.
SyncRequest(endpoint) ==
    \E body \in SyncBodies({"a"}, Tokens, {"a"}), time \in Times :
       \E fraction \in FractionsFrom(time) :
          /\ IF endpoint = "full" THEN fullDiscovery(body, time, fraction)
                                  ELSE incrementalDiscovery(body, time, fraction)
          /\ UNCHANGED <<roundTrip, concVars>>

\* The service under load: user "a" registers and unregisters with token
\* "x" and sends both kinds of sync request with every token; time keeps
\* passing (up to MaxTime) and requests of both sync kinds keep being
\* handled, as a server does that is never left idle.
NextLive ==
    \/ SyncRequest("full")
    \/ SyncRequest("incremental")
    \/ \E body \in UserBodies({"a"}, {"x"}), time \in Times :
          registerUser(body, time) /\ UNCHANGED <<roundTrip, concVars>>
    \/ \E body \in UserBodies({"a"}, {"x"}), time \in Times :
          deleteUser(body, time) /\ UNCHANGED <<roundTrip, concVars>>
    \/ Tick /\ UNCHANGED <<roundTrip, concVars>>

\* Fairness: time passes while it can, and sync requests of both kinds are
\* handled again and again.  A sync request can be handled in every state
\* (the handlers have no guard and two different bodies cannot both leave
\* the state as it is), so its weak fairness WF_vars(SyncRequest(e)) is the
\* formula []<><<SyncRequest(e)>>_vars, which is how it is written here.
SpecLive ==
    /\ Init
    /\ [][NextLive]_vars
    /\ WF_vars(Tick /\ UNCHANGED <<roundTrip, concVars>>)
    /\ []<><<SyncRequest("full")>>_vars
    /\ []<><<SyncRequest("incremental")>>_vars

\* The entry of user u in a bucket has drained: its timestamp has passed.
Drained(users, u) == u \in DOMAIN users /\ FloatLess(users[u], Now)

\* C31: a B_full or B_inc entry whose drain-empty timestamp has passed is
\* eventually removed from the bucket map as further requests are handled:
\* a drained entry of u never stays for good, time and again either u has no
\* entry or u has synced since and the entry is that of a recent sync, so
\* that the map is bounded by the users who synced within the last drain
\* period.
C31_DrainedEntriesRemoved ==
    \A u \in Identifiers :
       /\ []<>~Drained(s1_buckets, u)
       /\ []<>~Drained(s2_buckets, u)

----------------------------------------------------------------------------
(* Membership in the expiring set and deadlines that have passed.           *)

\* The times at which the stand-alone expiring set is called.
SetTimes == 0..(MaxSetTime + test_expiration_time)

\* The entries update(now) would remove: their deadline is at or before now.
Due(users, now) == {u \in DOMAIN users : users[u] <= now}

\* C32: ExpiringUserSet.containedUsers decides membership by key presence
\* alone: whatever the current time, an id whose entry is due but was not
\* removed by an update is returned as often as it occurs in the list (after
\* update(now) it is not), and the call removes nothing.
C32_DueEntriesReported ==
    /\ \A now \in SetTimes : \A ids \in SetLists :
          LET found == ExpiringUserSet_containedUsers(myExpSet, ids)
              swept == ExpiringUserSet_update(myExpSet, now).users
          IN  /\ \A u \in Due(myExpSet, now) :
                    Cardinality({i \in 1..Len(found) : found[i] = u})
                      = Cardinality({i \in 1..Len(ids) : ids[i] = u})
              /\ ExpiringUserSet_containedUsers(swept, ids)
                    = Kept(ids, DOMAIN myExpSet \ Due(myExpSet, now))
    /\ SetCalled("ExpiringUserSet", "containedUsers")
          => /\ myExpSet = setCall.before
             /\ \A i \in 1..Len(setCall.ids) :
                   setCall.ids[i] \in DOMAIN myExpSet
                      => \E j \in 1..Len(setCall.ret) : setCall.ret[j] = setCall.ids[i]

\* containedUsers returned an id whose deadline had passed by the time of a
\* later addUser of another id, and the entry is still in the set.
C32_Witness ==
    /\ SetCalled("ExpiringUserSet", "containedUsers")
    /\ \E u \in DOMAIN myExpSet : \E v \in DOMAIN myExpSet :
          /\ myExpSet[u] <= addedAt[v]
          /\ \E j \in 1..Len(setCall.ret) : setCall.ret[j] = u

----------------------------------------------------------------------------
(* The drain time of the stand-alone bucket over a sequence of calls.       *)

\* C33: over userCanSyncAmount calls with non-decreasing times and amounts
\* >= 0, the stored drain time of no user decreases (None counting as
\* earlier than every time), and the drain time of the calling user
\* strictly increases on every admitted call with amount > 0.
C33_MonotonicDrainTime ==
    [][(bcall'.op = "sync" /\ ordered')
         => /\ \A u \in DOMAIN bucket :
                  /\ u \in DOMAIN bucket'
                  /\ ~FloatLess(bucket'[u], bucket[u])
            /\ (bcall'.ret /\ bcall'.amount > 0)
                  => /\ bcall'.user \in DOMAIN bucket'
                     /\ bcall'.user \in DOMAIN bucket
                           => FloatLess(bucket[bcall'.user], bucket'[bcall'.user])]_vars

\* An admitted call with amount > 0 moved the drain time of a bucket that
\* had not drained yet.
C33_Witness ==
    /\ bcall.op = "sync"
    /\ bcall.ret
    /\ bcall.amount > 0
    /\ ordered
    /\ bcall.before # None
    /\ FloatLess(bcall.time, bcall.before)
    /\ FloatLess(bcall.before, bucket[bcall.user])

----------------------------------------------------------------------------
(* Registering a user that is registered already, with another token.       *)

\* The result of a request of user u with the given token, handled at the
\* reading w of the wall clock right after the step.
AnswerAfter(endpoint, u, token, ids, w) ==
    Serve(Containers', endpoint, Message(u, token, ids),
          w[1], w[1], w[2]).response.result

\* C34: register(user, token2) on a user registered with token1 succeeds
\* with SUCCESS; after it every unregister and sync request of the user with
\* token1 is answered AUTHENTICATION_INVALID and none with token2 is, an
\* unregister with token2 succeeds, and the user's S2_added deadline is the
\* time of the register plus Delta.
C34_RegisterRebinds ==
    [][(/\ request'.endpoint = "register"
        /\ request'.kind = "message"
        /\ request'.user \in DOMAIN s1
        /\ s1[request'.user] # request'.auth_token)
        => LET u == request'.user
               token1 == s1[u]
               token2 == request'.auth_token
           IN  /\ response' = makeResponse(<<>>, <<>>)
               /\ Entry(s1', u) = <<token2>>
               /\ Entry(s2_added', u) = <<clock' + s2_delta>>
               /\ \A endpoint \in {"delete", "full", "incremental"} :
                  \A ids \in SeqsUpTo(Identifiers, max_contacts + 1) :
                  \A w \in Later' :
                     /\ AnswerAfter(endpoint, u, token1, ids, w) = AUTHENTICATION_INVALID
                     /\ AnswerAfter(endpoint, u, token2, ids, w) # AUTHENTICATION_INVALID
               /\ \A w \in Later' :
                     AnswerAfter("delete", u, token2, <<>>, w) = SUCCESS]_vars

\* A user registered with one token was registered with another one at a
\* later time.
C34_Witness ==
    /\ roundTrip.stage = "registered"
    /\ roundTrip.user \in DOMAIN roundTrip.s1
    /\ roundTrip.s1[roundTrip.user] # roundTrip.auth_token
    /\ Entry(s1, roundTrip.user) = <<roundTrip.auth_token>>
    /\ clock > 0
    /\ Entry(s2_added, roundTrip.user) = <<clock + s2_delta>>

----------------------------------------------------------------------------
(* What a sync request may change, and what its answer depends on.          *)

\* The body of a request.
BodyOf(req) ==
    [kind |-> req.kind, user |-> req.user, auth_token |-> req.auth_token,
     identifiers |-> req.identifiers]

\* The bucket entries of every user but u are the same in both dicts.
SameButFor(before, after, u) ==
    \A v \in Identifiers \ {u} : Entry(after, v) = Entry(before, v)

\* C35: a fullSync request changes at most the requesting user's entry of
\* B_full and nothing of B_inc, an incrementalSync request at most the
\* requesting user's entry of B_inc and nothing of B_full; neither changes
\* S1, and the delta sets lose exactly the entries the pre-operation sweep
\* removes.  The answer to a full sync is the one given were B_inc empty,
\* the answer to an incremental sync the one given were B_full empty.
C35_DiscoveryReadOnly ==
    [][IsSync(request'.endpoint)
        => /\ s1' = s1
           /\ s2_added' = Swept(s2_added, clock)
           /\ s2_removed' = Swept(s2_removed, clock)
           /\ request'.endpoint = "full"
                 => /\ s2_buckets' = s2_buckets
                    /\ SameButFor(s1_buckets, s1_buckets', request'.user)
                    /\ response' = Serve([Containers EXCEPT !.s2_buckets = EmptyDict],
                                         "full", BodyOf(request'), clock, clock',
                                         frac').response
           /\ request'.endpoint = "incremental"
                 => /\ s1_buckets' = s1_buckets
                    /\ SameButFor(s2_buckets, s2_buckets', request'.user)
                    /\ response' = Serve([Containers EXCEPT !.s1_buckets = EmptyDict],
                                         "incremental", BodyOf(request'), clock,
                                         clock', frac').response]_vars

\* The bucket of a user in a bucket dict with drain period P is full.
Exhausted(B, users, u) ==
    ~Bucket_userCanSyncAmount(B, users, u, 1, Now).ret

\* A full sync was admitted while the user's B_inc was exhausted, or an
\* incremental sync while the user's B_full was.
C35_Witness ==
    /\ response.result = SUCCESS
    /\ Len(request.identifiers) > 0
    /\ \/ /\ request.endpoint = "full"
          /\ Exhausted(B_inc, s2_buckets, request.user)
          /\ request.user \in DOMAIN s1_buckets
       \/ /\ request.endpoint = "incremental"
          /\ Exhausted(B_full, s1_buckets, request.user)
          /\ request.user \in DOMAIN s2_buckets

----------------------------------------------------------------------------
(* Unregistering and registering again, and the rate limit (SpecReset).     *)

\* The result of a sync request of user u handled at the reading w of the
\* wall clock on the containers st.
SyncResult(st, endpoint, u, token, ids, w) ==
    Serve(st, endpoint, Message(u, token, ids), w[1], w[1], w[2]).response.result

\* C36: register and unregister leave B_full and B_inc unchanged; after
\* unregister(u) followed by register(u, any token) both buckets are what
\* they were before, and a sync of u at any later time gets the same result
\* as it would have got at that time without the round trip: one that
\* would have been refused is still refused.
C36_RoundTripKeepsBuckets ==
    /\ [][request'.endpoint \in {"register", "delete"}
            => /\ s1_buckets' = s1_buckets
               /\ s2_buckets' = s2_buckets]_vars
    /\ [](roundTrip.stage = "registered"
            => LET u == roundTrip.user
                   was == roundTrip.before
               IN  /\ s1_buckets = was.s1_buckets
                   /\ s2_buckets = was.s2_buckets
                   /\ \A endpoint \in {"full", "incremental"} :
                      \A ids \in SeqsUpTo({"a"}, max_contacts + 1) :
                      \A w \in Later :
                         SyncResult(Containers, endpoint, u, s1[u], ids, w)
                           = SyncResult(was, endpoint, u, was.s1[u], ids, w))

\* A user whose full sync of one contact is refused by the bucket
\* unregistered and registered again with another token; the sync is still
\* refused.
C36_Witness ==
    /\ roundTrip.stage = "registered"
    /\ roundTrip.before.s1[roundTrip.user] # s1[roundTrip.user]
    /\ SyncResult(roundTrip.before, "full", roundTrip.user,
                  roundTrip.before.s1[roundTrip.user], <<"a">>, <<clock, frac>>)
          = RATE_LIMIT_EXCEEDED
    /\ SyncResult(Containers, "full", roundTrip.user, s1[roundTrip.user], <<"a">>,
                  <<clock, frac>>) = RATE_LIMIT_EXCEEDED

====
